---- MODULE Spec2Model ----
(***************************************************************************)
(* EMI_Prediction: the preprocessing pipeline of utils/preprocessing.py    *)
(* (feature engineering, one-hot encoding, schema alignment) and the       *)
(* Streamlit script run of app.py that calls it.                           *)
(*                                                                         *)
(* Numbers.  A pandas cell is modelled as an extended rational             *)
(* [n |-> numerator, d |-> denominator], d >= 0, in lowest terms; d = 0    *)
(* stands for the IEEE values numpy produces on a zero divisor:            *)
(* n = 1 is +inf, n = -1 is -inf, n = 0 is NaN.  Binary rounding of        *)
(* float64 is abstracted away.  A string cell is [s |-> string].           *)
(***************************************************************************)
EXTENDS Integers, Sequences, FiniteSets, TLC

\* ------------------------------------------------------------------ bounds
\* Numeric form fields that vary range over -1 .. MaxAmt.
MaxAmt == 1

\* ------------------------------------------------------- extended rationals
Abs(x) == IF x < 0 THEN 0 - x ELSE x

Sign(x) == IF x < 0 THEN 0 - 1 ELSE IF x > 0 THEN 1 ELSE 0

RECURSIVE GCD(_, _)
GCD(a, b) == IF b = 0 THEN a ELSE GCD(b, a % b)

Norm(n, d) ==
    IF d = 0 THEN [n |-> Sign(n), d |-> 0]
    ELSE LET g == GCD(Abs(n), Abs(d))
         IN  [n |-> (Sign(d) * n) \div g, d |-> Abs(d) \div g]

Num(i) == [n |-> i, d |-> 1]

NaN == [n |-> 0, d |-> 0]

IsNum(v) == DOMAIN v = {"n", "d"}

IsFinite(v) == IsNum(v) /\ v.d > 0

Str(s) == [s |-> s]

RAdd(a, b) ==
    IF a.d = 0 \/ b.d = 0
    THEN IF a = NaN \/ b = NaN THEN NaN
         ELSE IF a.d = 0 /\ b.d = 0 THEN (IF a.n = b.n THEN a ELSE NaN)
         ELSE IF a.d = 0 THEN a ELSE b
    ELSE LET g == GCD(a.d, b.d)
         IN  Norm(a.n * (b.d \div g) + b.n * (a.d \div g), (a.d \div g) * b.d)

RNeg(a) == [n |-> 0 - a.n, d |-> a.d]

RSub(a, b) == RAdd(a, RNeg(b))

RMul(a, b) ==
    IF a.d = 0 \/ b.d = 0
    THEN [n |-> Sign(a.n) * Sign(b.n), d |-> 0]
    ELSE LET g1 == GCD(Abs(a.n), b.d)
             g2 == GCD(Abs(b.n), a.d)
             h1 == IF g1 = 0 THEN 1 ELSE g1
             h2 == IF g2 = 0 THEN 1 ELSE g2
         IN  Norm((a.n \div h1) * (b.n \div h2), (a.d \div h2) * (b.d \div h1))

\* numpy true division: x / 0 is +-inf, 0 / 0 is NaN, x / +-inf is 0
RInv(a) ==
    IF a.d = 0 THEN (IF a.n = 0 THEN NaN ELSE Num(0))
    ELSE IF a.n = 0 THEN [n |-> 1, d |-> 0]
    ELSE Norm(a.d, a.n)

RDiv(a, b) == RMul(a, RInv(b))

\* a >= b on cells; any comparison with NaN is False
RGe(a, b) ==
    IF a = NaN \/ b = NaN THEN FALSE
    ELSE IF a.d = 0 /\ b.d = 0 THEN a.n >= b.n
    ELSE IF a.d = 0 THEN a.n > 0
    ELSE IF b.d = 0 THEN b.n < 0
    ELSE a.n * b.d >= b.n * a.d

\* Series.clip(lower=0); NaN stays NaN
ClipLower0(a) == IF a = NaN THEN a ELSE IF RGe(a, Num(0)) THEN a ELSE Num(0)

\* ------------------------------------------------------------- sequences
Range(s) == {s[i] : i \in DOMAIN s}

RECURSIVE Flatten(_)
Flatten(ss) == IF ss = <<>> THEN <<>> ELSE Head(ss) \o Flatten(Tail(ss))

\* ------------------------------------------------------------ field names
\* Key order of the input_data mapping built by the two forms.
FieldOrder ==
    << "age", "gender", "marital_status", "education", "monthly_salary",
       "employment_type", "years_of_employment", "company_type", "house_type",
       "monthly_rent", "family_size", "dependents", "school_fees",
       "college_fees", "travel_expenses", "groceries_utilities",
       "other_monthly_expenses", "existing_loans", "current_emi_amount",
       "credit_score", "bank_balance", "emergency_fund", "emi_scenario",
       "requested_amount", "requested_tenure" >>

categorical_cols ==
    << "gender", "marital_status", "education", "employment_type",
       "company_type", "house_type", "existing_loans", "emi_scenario" >>

\* Columns read by the feature-engineering statements, in reading order.
FeatureInputs ==
    << "school_fees", "college_fees", "travel_expenses", "groceries_utilities",
       "other_monthly_expenses", "monthly_salary", "current_emi_amount",
       "bank_balance", "emergency_fund", "requested_amount", "credit_score",
       "years_of_employment" >>

DerivedOrder ==
    << "total_expenses", "disposable_income", "expense_ratio", "dti_ratio",
       "affordability_index", "credit_risk_score",
       "employment_stability_score", "financial_risk_index",
       "income_credit_interaction", "emi_income_interaction",
       "savings_buffer_ratio" >>

\* Every level string of the model in Python's str order (code points), the
\* order in which get_dummies sorts the levels it observes in a column.
LexOrder ==
    << "Crypto EMI", "E-commerce Shopping EMI", "Education EMI", "Family",
       "Female", "Government", "Graduate", "High School",
       "Home Appliances EMI", "Large Indian", "MNC", "Male", "Married",
       "Mid-size", "No", "Own", "Personal Loan EMI", "Post Graduate",
       "Private", "Professional", "Rented", "Self-employed", "Single",
       "Small", "Startup", "Vehicle EMI", "Yes", "male" >>

\* ------------------------------------------------------------ data frames
\* A frame is [columns |-> sequence of names, rows |-> sequence of rows],
\* a row being a function from the column names to cells.
DataFrame(recs) ==
    [columns |-> SelectSeq(FieldOrder, LAMBDA c : c \in DOMAIN recs[1]),
     rows    |-> recs]

\* df[name] = series, a value per row; a new name is appended to the columns
Assign(df, name, series) ==
    [columns |-> IF name \in Range(df.columns) THEN df.columns
                 ELSE Append(df.columns, name),
     rows    |-> [i \in DOMAIN df.rows |->
                    (name :> series[i]) @@ df.rows[i]]]

\* ------------------------------------------------- STEP 1-3 of the pipeline
\* variant: the current EMI is counted among the expenses
TotalExpensesWithEmi(r) ==
    RAdd(RAdd(RAdd(RAdd(RAdd(r["school_fees"], r["college_fees"]),
                        r["travel_expenses"]), r["groceries_utilities"]),
              r["other_monthly_expenses"]), r["current_emi_amount"])

TotalExpenses(r) ==
    RAdd(RAdd(RAdd(RAdd(r["school_fees"], r["college_fees"]),
                   r["travel_expenses"]), r["groceries_utilities"]),
         r["other_monthly_expenses"])

\* variant: the clip is forgotten
DisposableIncomeNoClip(r) ==
    RSub(RSub(r["monthly_salary"], r["total_expenses"]), r["current_emi_amount"])

DisposableIncome(r) ==
    ClipLower0(RSub(RSub(r["monthly_salary"], r["total_expenses"]),
                    r["current_emi_amount"]))

\* variant: the +1 guard is forgotten
SalaryNoGuard(r) == r["monthly_salary"]

SalaryPlus1(r) == RAdd(r["monthly_salary"], Num(1))

RequestedPlus1(r) == RAdd(r["requested_amount"], Num(1))

\* variant: the parentheses around the guarded denominator are missing
ExpenseRatioNoParens(r) ==
    RAdd(RDiv(r["total_expenses"], r["monthly_salary"]), Num(1))

ExpenseRatio(r) == RDiv(r["total_expenses"], SalaryPlus1(r))

DtiRatio(r) == RDiv(r["current_emi_amount"], SalaryPlus1(r))

AffordabilityIndex(r) ==
    RDiv(RAdd(r["bank_balance"], r["emergency_fund"]), RequestedPlus1(r))

\* variant: the score is scaled by its upper end instead of its range
CreditRiskScoreWrongRange(r) == RDiv(RSub(Num(850), r["credit_score"]), Num(850))

CreditRiskScore(r) == RDiv(RSub(Num(850), r["credit_score"]), Num(550))

\* variant: the band limits are compared with > instead of >=
EmploymentStabilityExclusive(r) ==
    IF ~ RGe(Num(5), r["years_of_employment"]) THEN Num(1)
    ELSE IF ~ RGe(Num(2), r["years_of_employment"]) THEN Norm(1, 2)
    ELSE Norm(1, 5)

EmploymentStabilityScore(r) ==
    IF RGe(r["years_of_employment"], Num(5)) THEN Num(1)
    ELSE IF RGe(r["years_of_employment"], Num(2)) THEN Norm(1, 2)
    ELSE Norm(1, 5)

\* variant: the weights of dti_ratio and credit_risk_score are exchanged
FinancialRiskIndexSwapped(r) ==
    RAdd(RAdd(RMul(r["expense_ratio"], Norm(2, 5)),
              RMul(r["dti_ratio"], Norm(1, 5))),
         RMul(r["credit_risk_score"], Norm(2, 5)))

FinancialRiskIndex(r) ==
    RAdd(RAdd(RMul(r["expense_ratio"], Norm(2, 5)),
              RMul(r["dti_ratio"], Norm(2, 5))),
         RMul(r["credit_risk_score"], Norm(1, 5)))

IncomeCreditInteraction(r) == RMul(r["monthly_salary"], r["credit_risk_score"])

\* variant: the interaction is the product of the two columns
EmiIncomeProduct(r) == RMul(r["current_emi_amount"], r["monthly_salary"])

EmiIncomeInteraction(r) == RDiv(r["current_emi_amount"], SalaryPlus1(r))

SavingsBufferRatio(r) ==
    RDiv(RAdd(r["bank_balance"], r["emergency_fund"]), SalaryPlus1(r))

\* the value the statement assigning column name computes for row r
Derive(name, r) ==
    CASE name = "total_expenses"             -> TotalExpenses(r)
      [] name = "disposable_income"          -> DisposableIncome(r)
      [] name = "expense_ratio"              -> ExpenseRatio(r)
      [] name = "dti_ratio"                  -> DtiRatio(r)
      [] name = "affordability_index"        -> AffordabilityIndex(r)
      [] name = "credit_risk_score"          -> CreditRiskScore(r)
      [] name = "employment_stability_score" -> EmploymentStabilityScore(r)
      [] name = "financial_risk_index"       -> FinancialRiskIndex(r)
      [] name = "income_credit_interaction"  -> IncomeCreditInteraction(r)
      [] name = "emi_income_interaction"     -> EmiIncomeInteraction(r)
      [] name = "savings_buffer_ratio"       -> SavingsBufferRatio(r)

\* the assignments from the k-th on, each reading the frame the one before
\* it left
RECURSIVE AssignFrom(_, _)
AssignFrom(df, k) ==
    IF k > Len(DerivedOrder) THEN df
    ELSE AssignFrom(Assign(df, DerivedOrder[k],
                           [i \in DOMAIN df.rows |->
                               Derive(DerivedOrder[k], df.rows[i])]),
                    k + 1)

\* the eleven assignments, in statement order
FeatureEngineering(df0) == AssignFrom(df0, 1)

\* --------------------------------------------- STEP 4: pd.get_dummies
\* the levels observed in column c, sorted
Levels(df, c) ==
    SelectSeq(LexOrder, LAMBDA l : \E i \in DOMAIN df.rows : df.rows[i][c] = Str(l))

\* variant: drop_first is left at its default
KeptLevelsNoDrop(df, c) == Levels(df, c)

\* drop_first=True removes the first of the observed levels
KeptLevels(df, c) == IF Levels(df, c) = <<>> THEN <<>> ELSE Tail(Levels(df, c))

DummyName(c, l) == c \o "_" \o l

DummyColumns(df, c) ==
    [k \in DOMAIN KeptLevels(df, c) |-> DummyName(c, KeptLevels(df, c)[k])]

\* variant: the indicator columns are appended and the encoded fields stay
GetDummiesKeepsField(df, cols) ==
    LET dummies == Flatten([k \in DOMAIN cols |-> DummyColumns(df, cols[k])])
        cell(row, name) ==
            IF name \in Range(df.columns) THEN row[name]
            ELSE LET k == CHOOSE k \in DOMAIN cols :
                              name \in Range(DummyColumns(df, cols[k]))
                     j == CHOOSE j \in DOMAIN KeptLevels(df, cols[k]) :
                              DummyName(cols[k], KeptLevels(df, cols[k])[j]) = name
                 IN  IF row[cols[k]] = Str(KeptLevels(df, cols[k])[j])
                     THEN Num(1) ELSE Num(0)
    IN  [columns |-> df.columns \o dummies,
         rows    |-> [i \in DOMAIN df.rows |->
                        [name \in Range(df.columns \o dummies) |->
                            cell(df.rows[i], name)]]]

\* variant: drop_first is not applied, every observed level gets its column
GetDummiesAllLevels(df, cols) ==
    LET rest    == SelectSeq(df.columns, LAMBDA c : c \notin Range(cols))
        dummies == Flatten([k \in DOMAIN cols |->
                       [j \in DOMAIN Levels(df, cols[k]) |->
                           DummyName(cols[k], Levels(df, cols[k])[j])]])
        cell(row, name) ==
            IF name \in Range(rest) THEN row[name]
            ELSE IF \E k \in DOMAIN cols : DummyName(cols[k], row[cols[k]].s) = name
                 THEN Num(1) ELSE Num(0)
    IN  [columns |-> rest \o dummies,
         rows    |-> [i \in DOMAIN df.rows |->
                        [name \in Range(rest \o dummies) |-> cell(df.rows[i], name)]]]

GetDummies(df, cols) ==
    LET rest    == SelectSeq(df.columns, LAMBDA c : c \notin Range(cols))
        dummies == Flatten([k \in DOMAIN cols |-> DummyColumns(df, cols[k])])
        cell(row, name) ==
            IF name \in Range(rest) THEN row[name]
            ELSE LET k == CHOOSE k \in DOMAIN cols :
                              name \in Range(DummyColumns(df, cols[k]))
                     j == CHOOSE j \in DOMAIN KeptLevels(df, cols[k]) :
                              DummyName(cols[k], KeptLevels(df, cols[k])[j]) = name
                 IN  IF row[cols[k]] = Str(KeptLevels(df, cols[k])[j])
                     THEN Num(1) ELSE Num(0)
    IN  [columns |-> rest \o dummies,
         rows    |-> [i \in DOMAIN df.rows |->
                        [name \in Range(rest \o dummies) |-> cell(df.rows[i], name)]]]

\* --------------------------------------------- STEP 5: DataFrame.reindex
\* variant: only the expected columns the frame has are selected
ReindexPresentOnly(df, expected_columns, fill_value) ==
    LET present == SelectSeq(expected_columns, LAMBDA c : c \in Range(df.columns))
    IN  [columns |-> present,
         rows    |-> [i \in DOMAIN df.rows |->
                        [c \in Range(present) |-> df.rows[i][c]]]]

\* variant: fill_value is not passed on, absent columns become NaN
ReindexNoFill(df, expected_columns, fill_value) ==
    [columns |-> expected_columns,
     rows    |-> [i \in DOMAIN df.rows |->
                    [c \in Range(expected_columns) |->
                        IF c \in Range(df.columns) THEN df.rows[i][c]
                        ELSE NaN]]]

Reindex(df, expected_columns, fill_value) ==
    [columns |-> expected_columns,
     rows    |-> [i \in DOMAIN df.rows |->
                    [c \in Range(expected_columns) |->
                        IF c \in Range(df.columns) THEN df.rows[i][c]
                        ELSE fill_value]]]

\* ------------------------------------------------- training-time encoding
\* The options offered by the two forms: the levels each field takes.
TrainLevels ==
    [gender          |-> {"Male", "Female"},
     marital_status  |-> {"Single", "Married"},
     education       |-> {"High School", "Graduate", "Post Graduate", "Professional"},
     employment_type |-> {"Private", "Government", "Self-employed"},
     company_type    |-> {"Startup", "Small", "Mid-size", "Large Indian", "MNC"},
     house_type      |-> {"Rented", "Own", "Family"},
     existing_loans  |-> {"Yes", "No"},
     emi_scenario    |-> {"E-commerce Shopping EMI", "Home Appliances EMI",
                          "Vehicle EMI", "Personal Loan EMI", "Education EMI"}]

SortedTrainLevels(c) == SelectSeq(LexOrder, LAMBDA l : l \in TrainLevels[c])

\* the reference level of a field: the first of its sorted training levels
ReferenceLevel(c) == Head(SortedTrainLevels(c))

TrainDummies(c) ==
    [k \in DOMAIN Tail(SortedTrainLevels(c)) |->
        DummyName(c, Tail(SortedTrainLevels(c))[k])]

\* every indicator column name a field can give rise to
IndicatorNames(c) == {DummyName(c, LexOrder[k]) : k \in DOMAIN LexOrder}

\* The schema the training run persists: raw numeric columns, derived
\* columns, then the indicator columns of each field without its reference.
TrainSchema ==
    SelectSeq(FieldOrder, LAMBDA c : c \notin Range(categorical_cols))
    \o DerivedOrder
    \o Flatten([k \in DOMAIN categorical_cols |-> TrainDummies(categorical_cols[k])])

\* The row the training-time transformation yields for one profile.
TrainingRow(d) ==
    LET fe == FeatureEngineering(DataFrame(<<d>>)).rows[1]
        ind(name) ==
            LET c == CHOOSE c \in Range(categorical_cols) :
                         name \in Range(TrainDummies(c))
                l == CHOOSE l \in TrainLevels[c] : DummyName(c, l) = name
            IN  IF d[c] = Str(l) THEN Num(1) ELSE Num(0)
    IN  [name \in Range(TrainSchema) |->
            IF name \in DOMAIN fe THEN fe[name] ELSE ind(name)]

\* ------------------------------------------------------------ input space
Amounts == (0 - 1) .. MaxAmt

\* the values the eligibility form submits when left at its defaults
Base ==
    [age |-> Num(30), gender |-> Str("Male"), marital_status |-> Str("Single"),
     education |-> Str("High School"), monthly_salary |-> Num(50000),
     employment_type |-> Str("Private"), years_of_employment |-> Num(5),
     company_type |-> Str("Startup"), house_type |-> Str("Rented"),
     monthly_rent |-> Num(0), family_size |-> Num(3), dependents |-> Num(1),
     school_fees |-> Num(0), college_fees |-> Num(0),
     travel_expenses |-> Num(2000), groceries_utilities |-> Num(5000),
     other_monthly_expenses |-> Num(3000), existing_loans |-> Str("Yes"),
     current_emi_amount |-> Num(0), credit_score |-> Num(750),
     bank_balance |-> Num(50000), emergency_fund |-> Num(30000),
     emi_scenario |-> Str("Personal Loan EMI"),
     requested_amount |-> Num(300000), requested_tenure |-> Num(36)]

Without(d, k) == [x \in (DOMAIN d) \ {k} |-> d[x]]

NumProfiles ==
    {[Base EXCEPT !.monthly_salary = Num(s), !.travel_expenses = Num(0),
                  !.groceries_utilities = Num(0),
                  !.other_monthly_expenses = Num(e),
                  !.current_emi_amount = Num(m)] :
        s \in Amounts, e \in Amounts, m \in {0, 1}}

ReqProfiles ==
    {[Base EXCEPT !.requested_amount = Num(q), !.bank_balance = Num(b),
                  !.emergency_fund = Num(0), !.monthly_salary = Num(s)] :
        q \in Amounts, b \in {0, 1}, s \in {0, 50000}}

EmpProfiles ==
    {[Base EXCEPT !.years_of_employment = Num(y), !.credit_score = Num(c)] :
        y \in {1, 2, 4}, c \in {300, 850}}

\* years of employment below, inside and above the bands
YearProfiles ==
    {[Base EXCEPT !.years_of_employment = Num(y)] : y \in Amounts \cup {3, 6, 40}}

\* one expense field at 1 and the four others at 0, with and without rent
ExpenseProfiles ==
    {[c \in DOMAIN Base |->
         IF c = f THEN Num(1)
         ELSE IF c = "monthly_rent" THEN Num(rent)
         ELSE IF c \in {"school_fees", "college_fees", "travel_expenses",
                        "groceries_utilities", "other_monthly_expenses"}
              THEN Num(0)
         ELSE Base[c]] :
        f \in {"school_fees", "college_fees", "travel_expenses",
               "groceries_utilities", "other_monthly_expenses"},
        rent \in {0, 1}}

CatProfiles ==
    {[Base EXCEPT !.gender = Str(g), !.education = Str(ed),
                  !.emi_scenario = Str(sc)] :
        g \in {"Male", "Female"}, ed \in {"Graduate", "High School"},
        sc \in {"Education EMI", "E-commerce Shopping EMI", "Crypto EMI"}}

\* every categorical field at the first of its sorted training levels
ReferenceProfile ==
    [c \in DOMAIN Base |->
        IF c \in Range(categorical_cols) THEN Str(ReferenceLevel(c)) ELSE Base[c]]

\* a categorical value spelt in a way no training level is spelt
MistypedProfile == [Base EXCEPT !.gender = Str("male")]

\* the form's defaults with one key left out, for each of the 25 keys
MissingProfiles == {Without(Base, FieldOrder[k]) : k \in DOMAIN FieldOrder}

PartialProfiles ==
    {Without(Base, k) : k \in {"credit_score", "house_type", "monthly_rent"}}

Profiles ==
    {Base, ReferenceProfile} \cup NumProfiles \cup ReqProfiles \cup EmpProfiles \cup CatProfiles
    \cup PartialProfiles \cup {MistypedProfile} \cup YearProfiles \cup ExpenseProfiles
    \cup MissingProfiles

\* the arguments of the calls whose history is recorded: every categorical
\* variation, every partial mapping, and the salary range
HistProfiles ==
    {Base, ReferenceProfile} \cup EmpProfiles \cup CatProfiles \cup PartialProfiles
    \cup {[Base EXCEPT !.monthly_salary = Num(s)] : s \in Amounts}

\* contents the schema artifact may hold
SchemaChoices ==
    { TrainSchema,
      << "disposable_income", "gender_Male", "monthly_salary",
         "emi_scenario_Personal Loan EMI", "dti_ratio" >>,
      << "emi_scenario_Crypto EMI", "gender", "loan_to_income",
         "affordability_index", "education_Professional", "gender_Female" >>,
      << >> }

Artifacts ==
    {[loadable |-> TRUE, columns |-> sc] : sc \in SchemaChoices}
    \cup {[loadable |-> FALSE, columns |-> << >>]}

\* ------------------------------------------------------------------ state
VARIABLES
    feature_columns_pkl,   \* what models/feature_columns.pkl holds
    pc,                    \* position inside preprocess_input, "idle" outside
    data,                  \* the argument of the current or last call
    df,                    \* the local frame df
    ret,                   \* outcome of the last call
    earlier,               \* history: one earlier completed call
    clf_pkl,               \* state of models/xgboost_clf.pkl
    reg_pkl,               \* state of models/xgboost_reg.pkl
    model_cache,           \* st.cache_resource entry of load_models
    current_page,          \* st.session_state.current_page, "unset" before
    run,                   \* position of the script run of app.py
    event,                 \* the widget interaction that triggered the run
    screen,                \* elements the run has put on the page
    predicted,             \* the predict call made by the run
    other,                 \* a second request in flight: its own pc, data, df, ret
    mlruns,                \* the mlruns directory tree
    EXPERIMENT_ID,         \* the global of mlflow_utils, set when it is imported
    returned               \* outcome of the last call into mlflow_utils

pipevars == <<feature_columns_pkl, pc, data, df, ret, earlier>>

uivars ==
    <<clf_pkl, reg_pkl, model_cache, current_page, run, event, screen, predicted>>

mlvars == <<mlruns, EXPERIMENT_ID, returned>>

appvars == <<uivars, other, mlvars>>

vars == <<pipevars, appvars>>

NoFrame == [columns |-> << >>, rows |-> << >>]

NoRet == [kind |-> "none"]

Returned(f) == [kind |-> "frame", frame |-> f]

Raised(e) == [kind |-> "raise", exc |-> e]

NoEvent == [kind |-> "rerun"]

NoPredict == [kind |-> "none"]

\* the application as it is before its first script run
\* no second request yet
NoRequest ==
    [pc |-> "idle", data |-> << >>, df |-> NoFrame, ret |-> NoRet,
     overlapped |-> FALSE]

\* no mlruns directory, mlflow_utils not imported, nothing called
NoMlruns == [exists |-> FALSE, items |-> << >>]

NotImported == [kind |-> "unset"]

NoCall == [fn |-> "none"]

MlflowStart ==
    /\ mlruns = NoMlruns
    /\ EXPERIMENT_ID = NotImported
    /\ returned = NoCall

AppStart ==
    /\ other = NoRequest
    /\ model_cache = "empty"
    /\ current_page = "unset"
    /\ run = "idle"
    /\ event = NoEvent
    /\ screen = {}
    /\ predicted = NoPredict

Init ==
    /\ feature_columns_pkl \in Artifacts
    /\ pc = "idle"
    /\ data = Base
    /\ df = NoFrame
    /\ ret = NoRet
    /\ earlier = [kind |-> "off"]
    /\ clf_pkl = "ok"
    /\ reg_pkl = "ok"
    /\ AppStart
    /\ MlflowStart

\* the same start, with the history of calls being recorded
InitHist ==
    /\ feature_columns_pkl \in Artifacts
    /\ pc = "idle"
    /\ data = Base
    /\ df = NoFrame
    /\ ret = NoRet
    /\ earlier = [kind |-> "none"]
    /\ clf_pkl = "ok"
    /\ reg_pkl = "ok"
    /\ AppStart
    /\ MlflowStart

\* history bookkeeping at the end of a call: when recording and nothing is
\* held yet, start holding this call or let it pass; once a call is held,
\* note whether a call with another argument has completed since
Remember(d, r) ==
    \/ /\ earlier.kind = "call"
       /\ earlier' = [earlier EXCEPT !.between = @ \/ (earlier.data # d)]
    \/ /\ earlier.kind # "call"
       /\ earlier' = earlier
    \/ /\ earlier.kind = "none"
       /\ earlier' = [kind |-> "call", data |-> d, ret |-> r, between |-> FALSE]

\* preprocess_input(data) is entered: df = pd.DataFrame([data])
Call(d) ==
    /\ pc = "idle"
    /\ pc' = "fe"
    /\ data' = d
    /\ df' = DataFrame(<<d>>)
    /\ ret' = NoRet
    /\ UNCHANGED <<feature_columns_pkl, earlier>>
    /\ UNCHANGED appvars

\* variant: the derived columns are written into the caller's mapping
StepFeaturesMutatesInput ==
    /\ pc = "fe"
    /\ IF Range(FeatureInputs) \subseteq Range(df.columns)
       THEN /\ df' = FeatureEngineering(df)
            /\ data' = df'.rows[1]
            /\ pc' = "enc"
            /\ UNCHANGED <<ret, earlier>>
       ELSE /\ ret' = Raised("KeyError")
            /\ pc' = "idle"
            /\ df' = NoFrame
            /\ data' = data
            /\ Remember(data, ret')
    /\ UNCHANGED feature_columns_pkl
    /\ UNCHANGED appvars

\* STEP 1-3: a column that is read and absent raises KeyError
StepFeatures ==
    /\ pc = "fe"
    /\ IF Range(FeatureInputs) \subseteq Range(df.columns)
       THEN /\ df' = FeatureEngineering(df)
            /\ pc' = "enc"
            /\ UNCHANGED <<ret, earlier>>
       ELSE /\ ret' = Raised("KeyError")
            /\ pc' = "idle"
            /\ df' = NoFrame
            /\ Remember(data, ret')
    /\ UNCHANGED <<feature_columns_pkl, data>>
    /\ UNCHANGED appvars

\* variant: the encoder rejects a level the training data did not have
StepEncodeStrict ==
    /\ pc = "enc"
    /\ IF /\ Range(categorical_cols) \subseteq Range(df.columns)
          /\ \A c \in Range(categorical_cols) :
                \E l \in TrainLevels[c] : df.rows[1][c] = Str(l)
       THEN /\ df' = GetDummies(df, categorical_cols)
            /\ pc' = "align"
            /\ UNCHANGED <<ret, earlier>>
       ELSE /\ ret' = Raised("KeyError")
            /\ pc' = "idle"
            /\ df' = NoFrame
            /\ Remember(data, ret')
    /\ UNCHANGED <<feature_columns_pkl, data>>
    /\ UNCHANGED appvars

\* variant: the encoder encodes the listed columns the frame has
StepEncodeSkipsAbsent ==
    /\ pc = "enc"
    /\ df' = GetDummies(df, SelectSeq(categorical_cols,
                                      LAMBDA c : c \in Range(df.columns)))
    /\ pc' = "align"
    /\ UNCHANGED <<ret, earlier>>
    /\ UNCHANGED <<feature_columns_pkl, data>>
    /\ UNCHANGED appvars

\* STEP 4: get_dummies raises KeyError when a listed column is absent
StepEncode ==
    /\ pc = "enc"
    /\ IF Range(categorical_cols) \subseteq Range(df.columns)
       THEN /\ df' = GetDummies(df, categorical_cols)
            /\ pc' = "align"
            /\ UNCHANGED <<ret, earlier>>
       ELSE /\ ret' = Raised("KeyError")
            /\ pc' = "idle"
            /\ df' = NoFrame
            /\ Remember(data, ret')
    /\ UNCHANGED <<feature_columns_pkl, data>>
    /\ UNCHANGED appvars

\* variant: the step writes the columns it found back to the artifact
StepAlignRewrites ==
    /\ pc = "align"
    /\ IF feature_columns_pkl.loadable
       THEN /\ df' = Reindex(df, feature_columns_pkl.columns, Num(0))
            /\ ret' = Returned(df')
            /\ feature_columns_pkl' =
                  [feature_columns_pkl EXCEPT !.columns =
                      SelectSeq(@, LAMBDA c : c \in Range(df.columns))]
       ELSE /\ df' = NoFrame
            /\ ret' = Raised("FileNotFoundError")
            /\ UNCHANGED feature_columns_pkl
    /\ pc' = "idle"
    /\ Remember(data, ret')
    /\ UNCHANGED data
    /\ UNCHANGED appvars

\* variant: an unreadable artifact is replaced by the frame's own columns
StepAlignGuessesSchema ==
    /\ pc = "align"
    /\ df' = Reindex(df, IF feature_columns_pkl.loadable
                         THEN feature_columns_pkl.columns ELSE df.columns, Num(0))
    /\ ret' = Returned(df')
    /\ pc' = "idle"
    /\ Remember(data, ret')
    /\ UNCHANGED <<feature_columns_pkl, data>>
    /\ UNCHANGED appvars

\* STEP 5: read the artifact, reindex, return
StepAlign ==
    /\ pc = "align"
    /\ IF feature_columns_pkl.loadable
       THEN /\ df' = Reindex(df, feature_columns_pkl.columns, Num(0))
            /\ ret' = Returned(df')
       ELSE /\ df' = NoFrame
            /\ ret' = Raised("FileNotFoundError")
    /\ pc' = "idle"
    /\ Remember(data, ret')
    /\ UNCHANGED <<feature_columns_pkl, data>>
    /\ UNCHANGED appvars

\* preprocess_input(d) run from entry to exit with the artifact holding a
PreprocessInput(d, a) ==
    IF ~ (Range(FeatureInputs) \subseteq DOMAIN d) THEN Raised("KeyError")
    ELSE IF ~ (Range(categorical_cols) \subseteq DOMAIN d) THEN Raised("KeyError")
    ELSE IF ~ a.loadable THEN Raised("FileNotFoundError")
    ELSE Returned(Reindex(GetDummies(FeatureEngineering(DataFrame(<<d>>)),
                                     categorical_cols),
                          a.columns, Num(0)))

\* ------------------------------------------------------- app.py script run
nav_items ==
    << "Home", "System Overview", "EMI Eligibility Checker",
       "Max EMI Predictor", "Data Exploration", "MLflow Dashboard" >>

clf_path == "models/xgboost_clf.pkl"

reg_path == "models/xgboost_reg.pkl"

FEATURE_COL_PATH == "models/feature_columns.pkl"

FileStates == {"ok", "missing", "corrupt"}

\* a page element: the widget, its text, and the file path the text names
Element(w, t, p) == [widget |-> w, text |-> t, path |-> p]

\* values the eligibility form can submit (the other keys are constants)
EligibilityInputs ==
    {[Base EXCEPT !.gender = Str(g), !.monthly_salary = Num(s)] :
        g \in {"Male", "Female"}, s \in {10000, 50000}}

\* the Max EMI form also submits the scenario and the requested amount
MaxEmiInputs ==
    {[Base EXCEPT !.emi_scenario = Str(sc), !.requested_amount = Num(q)] :
        sc \in {"Vehicle EMI", "E-commerce Shopping EMI"}, q \in {10000, 500000}}

Events ==
    {NoEvent}
    \cup {[kind |-> "click", item |-> nav_items[i]] : i \in DOMAIN nav_items}
    \cup {[kind |-> "submit", form |-> "eligibility_form", values |-> d] :
            d \in EligibilityInputs}
    \cup {[kind |-> "submit", form |-> "max_emi_form", values |-> d] :
            d \in MaxEmiInputs}

FormPage(form) ==
    IF form = "eligibility_form" THEN "EMI Eligibility Checker"
    ELSE "Max EMI Predictor"

\* A script run starts: the first load or a plain rerun at any time, a
\* widget interaction only on a page the previous run rendered in full.
StartRun(ev) ==
    /\ run \in {"idle", "done", "stopped", "failed"}
    /\ pc = "idle"
    /\ \/ ev.kind = "rerun"
       \/ ev.kind = "click" /\ run = "done"
       \/ ev.kind = "submit" /\ run = "done" /\ current_page = FormPage(ev.form)
    /\ run' = "load"
    /\ event' = ev
    /\ screen' = {}
    /\ predicted' = NoPredict
    /\ UNCHANGED <<pipevars, other, mlvars, clf_pkl, reg_pkl, model_cache, current_page>>

\* variant: only the classifier file is checked and loaded before returning
LoadModelsClassifierOnly ==
    /\ run = "load"
    /\ IF model_cache = "loaded"
       THEN /\ run' = "nav"
            /\ UNCHANGED <<model_cache, screen>>
       ELSE IF clf_pkl = "missing"
       THEN /\ screen' =
                 { Element("st.error", "Model file not found", clf_path),
                   Element("st.info", "Please ensure model files are in the 'models/' directory.", "") }
            /\ run' = "stopped"
            /\ UNCHANGED model_cache
       ELSE IF clf_pkl = "corrupt"
       THEN /\ screen' =
                 { Element("st.error", "Error loading models", clf_path),
                   Element("st.info", "Please check that model files are valid and compatible.", "") }
            /\ run' = "stopped"
            /\ UNCHANGED model_cache
       ELSE /\ model_cache' = "loaded"
            /\ run' = "nav"
            /\ UNCHANGED screen
    /\ UNCHANGED <<pipevars, other, mlvars, clf_pkl, reg_pkl, current_page, event, predicted>>

\* clf_model, reg_model = load_models(), behind st.cache_resource
LoadModels ==
    /\ run = "load"
    /\ IF model_cache = "loaded"
       THEN /\ run' = "nav"
            /\ UNCHANGED <<model_cache, screen>>
       ELSE IF clf_pkl = "missing" \/ reg_pkl = "missing"
       THEN /\ screen' =
                 { Element("st.error", "Model file not found",
                           IF clf_pkl = "missing" THEN clf_path ELSE reg_path),
                   Element("st.info", "Please ensure model files are in the 'models/' directory.", "") }
            /\ run' = "stopped"
            /\ UNCHANGED model_cache
       ELSE IF clf_pkl = "corrupt" \/ reg_pkl = "corrupt"
       THEN /\ \E p \in {"", IF clf_pkl = "corrupt" THEN clf_path ELSE reg_path} :
                 screen' =
                   { Element("st.error", "Error loading models", p),
                     Element("st.info", "Please check that model files are valid and compatible.", "") }
            /\ run' = "stopped"
            /\ UNCHANGED model_cache
       ELSE /\ model_cache' = "loaded"
            /\ run' = "nav"
            /\ UNCHANGED screen
    /\ UNCHANGED <<pipevars, other, mlvars, clf_pkl, reg_pkl, current_page, event, predicted>>

\* variant: the page is not kept in the session, a run without a click
\* starts from "Home" again
NavigateForgets ==
    /\ run = "nav"
    /\ current_page' = IF event.kind = "click" THEN event.item ELSE "Home"
    /\ run' = "page"
    /\ UNCHANGED <<pipevars, other, mlvars, clf_pkl, reg_pkl, model_cache, event, screen, predicted>>

\* sidebar: initialise current_page, then the button loop
Navigate ==
    /\ run = "nav"
    /\ current_page' =
          IF event.kind = "click" THEN event.item
          ELSE IF current_page = "unset" THEN "Home"
          ELSE current_page
    /\ run' = "page"
    /\ UNCHANGED <<pipevars, other, mlvars, clf_pkl, reg_pkl, model_cache, event, screen, predicted>>

Submitted(form) == event.kind = "submit" /\ event.form = form

\* the branch of a form page: on submit build input_data and call
\* preprocess_input, otherwise only the form is drawn
FormBranch(page, form) ==
    /\ run = "page"
    /\ current_page = page
    /\ screen' = screen \cup {Element("page", page, "")}
    /\ IF Submitted(form)
       THEN /\ run' = "preprocess"
            /\ pc' = "fe"
            /\ data' = event.values
            /\ df' = DataFrame(<<event.values>>)
            /\ ret' = NoRet
       ELSE /\ run' = "done"
            /\ UNCHANGED <<pc, data, df, ret>>
    /\ UNCHANGED <<feature_columns_pkl, earlier, other, mlvars>>
    /\ UNCHANGED <<clf_pkl, reg_pkl, model_cache, current_page, event, predicted>>

EligibilityPage == FormBranch("EMI Eligibility Checker", "eligibility_form")

MaxEmiPage == FormBranch("Max EMI Predictor", "max_emi_form")

\* the four branches that make no prediction
OtherPage ==
    /\ run = "page"
    /\ current_page \notin {"EMI Eligibility Checker", "Max EMI Predictor"}
    /\ screen' = screen \cup {Element("page", current_page, "")}
    /\ run' = "done"
    /\ UNCHANGED <<pipevars, other, mlvars, clf_pkl, reg_pkl, model_cache, current_page, event, predicted>>

\* variant: the model is handed the encoded frame before it is reindexed
PredictWithUnaligned(page, model) ==
    /\ run = "preprocess"
    /\ pc = "align"
    /\ current_page = page
    /\ predicted' = [kind |-> "call", model |-> model, X |-> df]
    /\ screen' = screen \cup {Element("result-box", page, "")}
    /\ run' = "done"
    /\ UNCHANGED <<pipevars, other, mlvars, clf_pkl, reg_pkl, model_cache, current_page, event>>

\* model.predict(X_input) after preprocess_input has returned
PredictWith(page, model) ==
    /\ run = "preprocess"
    /\ pc = "idle"
    /\ ret.kind = "frame"
    /\ current_page = page
    /\ predicted' = [kind |-> "call", model |-> model, X |-> ret.frame]
    /\ screen' = screen \cup {Element("result-box", page, "")}
    /\ run' = "done"
    /\ UNCHANGED <<pipevars, other, mlvars, clf_pkl, reg_pkl, model_cache, current_page, event>>

ClfPredict == PredictWith("EMI Eligibility Checker", "clf_model")

RegPredict == PredictWith("Max EMI Predictor", "reg_model")

\* preprocess_input raised: nothing in app.py catches it, the script run
\* ends and Streamlit renders the exception itself
UncaughtException ==
    /\ run = "preprocess"
    /\ pc = "idle"
    /\ ret.kind = "raise"
    /\ screen' = screen \cup
          {Element("exception", ret.exc,
                   IF ret.exc = "FileNotFoundError" THEN FEATURE_COL_PATH ELSE "")}
    /\ run' = "failed"
    /\ UNCHANGED <<pipevars, other, mlvars, clf_pkl, reg_pkl, model_cache, current_page, event, predicted>>

InitApp ==
    /\ feature_columns_pkl \in Artifacts
    /\ pc = "idle"
    /\ data = Base
    /\ df = NoFrame
    /\ ret = NoRet
    /\ earlier = [kind |-> "off"]
    /\ clf_pkl \in FileStates
    /\ reg_pkl \in FileStates
    /\ AppStart
    /\ MlflowStart

NextApp ==
    \/ \E ev \in Events : StartRun(ev)
    \/ LoadModels
    \/ Navigate
    \/ EligibilityPage
    \/ MaxEmiPage
    \/ OtherPage
    \/ StepFeatures
    \/ StepEncode
    \/ StepAlign
    \/ ClfPredict
    \/ RegPredict
    \/ UncaughtException

SpecApp == InitApp /\ [][NextApp]_vars

Next ==
    \/ \E d \in Profiles : Call(d)
    \/ StepFeatures
    \/ StepEncode
    \/ StepAlign

Spec == Init /\ [][Next]_vars

NextHist ==
    \/ \E d \in HistProfiles : Call(d)
    \/ StepFeatures
    \/ StepEncode
    \/ StepAlign

SpecHist == InitHist /\ [][NextHist]_vars

\* ------------------------------------------- the artifact file is replaced
\* models/feature_columns.pkl is a file beside the process: a training run or
\* a deployment rewrites or removes it while the process is serving.
ReplaceArtifact(a) ==
    /\ a # feature_columns_pkl
    /\ feature_columns_pkl' = a
    /\ UNCHANGED <<pc, data, df, ret, earlier>>
    /\ UNCHANGED appvars

EnvProfiles == {Base, ReferenceProfile, MistypedProfile}

NextEnv ==
    \/ \E d \in EnvProfiles : Call(d)
    \/ StepFeatures
    \/ StepEncode
    \/ StepAlign
    \/ \E a \in Artifacts : ReplaceArtifact(a)

SpecEnv == InitHist /\ [][NextEnv]_vars

\* --------------------------------------------------- a concurrent request
\* Streamlit runs each session's script in a thread of its own, so a second
\* call of preprocess_input can be anywhere while the first is in flight.
\* Its locals data and df are its own; the artifact file is the one file.
OtherCall(d) ==
    /\ other.pc = "idle"
    /\ other' = [pc |-> "fe", data |-> d, df |-> DataFrame(<<d>>), ret |-> NoRet,
                 overlapped |-> pc # "idle"]
    /\ UNCHANGED <<pipevars, uivars, mlvars>>

\* variant: the derived columns are computed from a module-level mapping
OtherFeaturesSharedInput ==
    /\ other.pc = "fe"
    /\ other' =
          IF Range(FeatureInputs) \subseteq Range(other.df.columns)
          THEN [other EXCEPT !.df = FeatureEngineering(DataFrame(<<data>>)),
                             !.pc = "enc"]
          ELSE [other EXCEPT !.ret = Raised("KeyError"), !.pc = "idle",
                             !.df = NoFrame]
    /\ UNCHANGED <<pipevars, uivars, mlvars>>

OtherFeatures ==
    /\ other.pc = "fe"
    /\ other' =
          IF Range(FeatureInputs) \subseteq Range(other.df.columns)
          THEN [other EXCEPT !.df = FeatureEngineering(other.df), !.pc = "enc"]
          ELSE [other EXCEPT !.ret = Raised("KeyError"), !.pc = "idle",
                             !.df = NoFrame]
    /\ UNCHANGED <<pipevars, uivars, mlvars>>

OtherEncode ==
    /\ other.pc = "enc"
    /\ other' =
          IF Range(categorical_cols) \subseteq Range(other.df.columns)
          THEN [other EXCEPT !.df = GetDummies(other.df, categorical_cols),
                             !.pc = "align"]
          ELSE [other EXCEPT !.ret = Raised("KeyError"), !.pc = "idle",
                             !.df = NoFrame]
    /\ UNCHANGED <<pipevars, uivars, mlvars>>

OtherAlign ==
    /\ other.pc = "align"
    /\ other' =
          IF feature_columns_pkl.loadable
          THEN LET out == Reindex(other.df, feature_columns_pkl.columns, Num(0))
               IN  [other EXCEPT !.df = out, !.ret = Returned(out), !.pc = "idle"]
          ELSE [other EXCEPT !.df = NoFrame, !.ret = Raised("FileNotFoundError"),
                             !.pc = "idle"]
    /\ UNCHANGED <<pipevars, uivars, mlvars>>

ConcProfiles ==
    {Base, MistypedProfile, [Base EXCEPT !.monthly_salary = Num(0 - 1)],
     Without(Base, "house_type")}

NextConc ==
    \/ \E d \in ConcProfiles : Call(d)
    \/ StepFeatures
    \/ StepEncode
    \/ StepAlign
    \/ \E d \in ConcProfiles : OtherCall(d)
    \/ OtherFeatures
    \/ OtherEncode
    \/ OtherAlign

SpecConc == Init /\ [][NextConc]_vars

\* ---------------------------------------------------- mlflow_utils.py
\* Names of directory entries and of runs are sequences of one-character
\* strings, so that isdigit, upper, lower and the substring tests are
\* computed as Python computes them.
MaxEntries == 2

Digit == {"0", "1", "2", "3", "4", "5", "6", "7", "8", "9"}

\* str.isdigit(): non-empty and every character a digit
IsDigit(s) == s # << >> /\ \A i \in DOMAIN s : s[i] \in Digit

\* Python values: None and a str
None == [kind |-> "None"]

StrVal(s) == [kind |-> "str", v |-> s]

\* a meta.yaml: absent, present but failing in open or yaml.safe_load, an
\* empty document (None), or a mapping
NoMeta == [exists |-> FALSE, readable |-> FALSE, null |-> TRUE, map |-> << >>]

BrokenMeta == [exists |-> TRUE, readable |-> FALSE, null |-> TRUE, map |-> << >>]

EmptyMeta == [exists |-> TRUE, readable |-> TRUE, null |-> TRUE, map |-> << >>]

MetaOf(m) == [exists |-> TRUE, readable |-> TRUE, null |-> FALSE, map |-> m]

EMIPredict_AI ==
    << "E", "M", "I", "P", "r", "e", "d", "i", "c", "t", "_", "A", "I" >>

\* an entry of mlruns: a directory or a file, with its meta.yaml and the
\* entries below it
Entry(item, isdir, meta, runs) ==
    [item |-> item, isdir |-> isdir, meta |-> meta, runs |-> runs]

\* variant: the default experiment "0" is not skipped
IsExperimentDirWithDefault(e) == e.isdir /\ IsDigit(e.item)

\* os.path.isdir(item_path) and item.isdigit() and item != "0"
IsExperimentDir(e) == e.isdir /\ IsDigit(e.item) /\ e.item # << "0" >>

\* meta.yaml exists, loads, and `meta and 'name' in meta`
HasNamedMeta(e) ==
    /\ e.meta.exists
    /\ e.meta.readable
    /\ ~ e.meta.null
    /\ DOMAIN e.meta.map # {}
    /\ "name" \in DOMAIN e.meta.map

\* the list candidates, as (id, name) pairs in os.listdir order
Candidates(tree) ==
    LET kept == SelectSeq(tree.items,
                          LAMBDA e : IsExperimentDir(e) /\ HasNamedMeta(e))
    IN  [k \in DOMAIN kept |-> << kept[k].item, kept[k].meta.map["name"] >>]

get_experiment_id(tree) ==
    IF ~ tree.exists THEN None
    ELSE LET candidates == Candidates(tree)
             preferred  == SelectSeq(candidates, LAMBDA c : c[2] = EMIPredict_AI)
         IN  IF preferred # << >> THEN StrVal(preferred[1][1])
             ELSE IF candidates # << >> THEN StrVal(candidates[1][1])
             ELSE None

\* what mlruns may hold at its top level
ExperimentPool ==
    { Entry(<< "0" >>, TRUE, MetaOf([name |-> << "D", "e", "f" >>]), << >>),
      Entry(<< "1" >>, TRUE, MetaOf([name |-> EMIPredict_AI]), << >>),
      Entry(<< "2" >>, TRUE, MetaOf([name |-> << "O", "l", "d" >>]), << >>),
      Entry(<< "3" >>, TRUE, BrokenMeta, << >>),
      Entry(<< "4" >>, TRUE, NoMeta, << >>),
      Entry(<< "5" >>, FALSE, NoMeta, << >>),
      Entry(<< "6" >>, TRUE, MetaOf([experiment_id |-> << "6" >>]), << >>),
      Entry(<< "7" >>, TRUE, EmptyMeta, << >>),
      Entry(<< "0", "0" >>, TRUE, MetaOf([name |-> << "Z" >>]), << >>),
      Entry(<< "1", "2" >>, TRUE, MetaOf([name |-> EMIPredict_AI]), << >>),
      Entry(<< ".", "t", "r", "a", "s", "h" >>, TRUE, NoMeta, << >>),
      Entry(<< "m", "o", "d", "e", "l", "s" >>, TRUE,
            MetaOf([name |-> << "m" >>]), << >>) }

\* the listings of a directory: up to n entries of the pool, no name twice
Listings(pool, n) ==
    { s \in UNION {[1..k -> pool] : k \in 0..n} :
        \A i, j \in DOMAIN s : i # j => s[i].item # s[j].item }

ExperimentTrees ==
    {NoMlruns} \cup
    {[exists |-> TRUE, items |-> s] : s \in Listings(ExperimentPool, MaxEntries)}

\* import of the module: line 47 runs
ImportMlflowUtils ==
    /\ EXPERIMENT_ID = NotImported
    /\ EXPERIMENT_ID' = get_experiment_id(mlruns)
    /\ UNCHANGED <<mlruns, returned>>
    /\ UNCHANGED <<pipevars, uivars, other>>

CallGetExperimentId ==
    /\ EXPERIMENT_ID # NotImported
    /\ returned' = [fn |-> "get_experiment_id", value |-> get_experiment_id(mlruns)]
    /\ UNCHANGED <<mlruns, EXPERIMENT_ID>>
    /\ UNCHANGED <<pipevars, uivars, other>>

\* the state outside mlflow_utils, at rest
PipelineAtRest ==
    /\ feature_columns_pkl = [loadable |-> TRUE, columns |-> TrainSchema]
    /\ pc = "idle"
    /\ data = Base
    /\ df = NoFrame
    /\ ret = NoRet
    /\ earlier = [kind |-> "off"]
    /\ clf_pkl = "ok"
    /\ reg_pkl = "ok"
    /\ AppStart

InitExperiments ==
    /\ PipelineAtRest
    /\ mlruns \in ExperimentTrees
    /\ EXPERIMENT_ID = NotImported
    /\ returned = NoCall

NextExperiments ==
    \/ ImportMlflowUtils
    \/ CallGetExperimentId

SpecExperiments == InitExperiments /\ [][NextExperiments]_vars

\* ------------------------------------------------ runs of an experiment
\* A run directory: its meta.yaml, its tags, metrics and params files. A
\* metric file is a sequence of lines, a line a sequence of tokens, a token
\* a number or some other word; tag and param files are character sequences.
RunEntry(item, isdir, meta, tags, metrics, params) ==
    [item |-> item, isdir |-> isdir, meta |-> meta, tags |-> tags,
     metrics |-> metrics, params |-> params]

Number(v) == [num |-> TRUE, v |-> v]

Word == [num |-> FALSE, v |-> 0]

\* one record line "timestamp value step"
MetricLine(v) == << Number(1700), Number(v), Number(0) >>

FloatVal(v) == [kind |-> "float", v |-> v]

Whitespace == {" ", "\n", "\t"}

\* str.strip()
RECURSIVE Strip(_)
Strip(s) ==
    IF s = << >> THEN s
    ELSE IF Head(s) \in Whitespace THEN Strip(Tail(s))
    ELSE IF s[Len(s)] \in Whitespace THEN Strip(SubSeq(s, 1, Len(s) - 1))
    ELSE s

UpperCase ==
    << "A", "B", "C", "D", "E", "F", "G", "H", "I", "J", "K", "L", "M",
       "N", "O", "P", "Q", "R", "S", "T", "U", "V", "W", "X", "Y", "Z" >>

LowerCase ==
    << "a", "b", "c", "d", "e", "f", "g", "h", "i", "j", "k", "l", "m",
       "n", "o", "p", "q", "r", "s", "t", "u", "v", "w", "x", "y", "z" >>

\* translate the characters of s that occur in from to those of to
Translate(s, from, to) ==
    [i \in DOMAIN s |->
        IF \E k \in DOMAIN from : from[k] = s[i]
        THEN to[CHOOSE k \in DOMAIN from : from[k] = s[i]]
        ELSE s[i]]

upper(s) == Translate(s, LowerCase, UpperCase)

lower(s) == Translate(s, UpperCase, LowerCase)

\* sub in s
Contains(s, sub) ==
    \E i \in 0..(Len(s) - Len(sub)) : SubSeq(s, i + 1, i + Len(sub)) = sub

\* the entry of a listing with the given name, if any
HasEntry(items, name) == \E i \in DOMAIN items : items[i].item = name

EntryOf(items, name) == items[CHOOSE i \in DOMAIN items : items[i].item = name]

\* exp_id of lines 52, 69, 84, 112: detected again when the global is empty
ExpIdNow(tree, global) ==
    IF global = StrVal(<< "0" >>) \/ global.kind # "str" \/ global = StrVal(<< >>)
    THEN get_experiment_id(tree)
    ELSE global

NoExperiment(exp_id) ==
    exp_id.kind # "str" \/ exp_id = StrVal(<< >>) \/ exp_id = StrVal(<< "0" >>)

\* os.path.exists(os.path.join(MLRUNS_DIR, exp_id, run_id))
HasRun(tree, exp_id, run_id) ==
    /\ tree.exists
    /\ HasEntry(tree.items, exp_id)
    /\ EntryOf(tree.items, exp_id).isdir
    /\ HasEntry(EntryOf(tree.items, exp_id).runs, run_id)
    /\ EntryOf(EntryOf(tree.items, exp_id).runs, run_id).isdir

RunOf(tree, exp_id, run_id) == EntryOf(EntryOf(tree.items, exp_id).runs, run_id)

\* float(last_line.split()[1]), None when that raises
ParseMetric(content) ==
    IF content = << >> THEN None
    ELSE LET line == content[Len(content)]
         IN  IF Len(line) >= 2 /\ line[2].num THEN FloatVal(line[2].v) ELSE None

read_mlflow_metric(tree, global, run_id, metric_name) ==
    LET exp_id == ExpIdNow(tree, global)
    IN  IF NoExperiment(exp_id) THEN None
        ELSE IF /\ HasRun(tree, exp_id.v, run_id)
                /\ metric_name \in DOMAIN RunOf(tree, exp_id.v, run_id).metrics
        THEN ParseMetric(RunOf(tree, exp_id.v, run_id).metrics[metric_name])
        ELSE None

read_mlflow_param(tree, global, run_id, param_name) ==
    LET exp_id == ExpIdNow(tree, global)
    IN  IF NoExperiment(exp_id) THEN None
        ELSE IF /\ HasRun(tree, exp_id.v, run_id)
                /\ param_name \in DOMAIN RunOf(tree, exp_id.v, run_id).params
        THEN StrVal(Strip(RunOf(tree, exp_id.v, run_id).params[param_name]))
        ELSE None

read_mlflow_tag(tree, global, run_id, tag_name) ==
    LET exp_id == ExpIdNow(tree, global)
    IN  IF NoExperiment(exp_id) THEN None
        ELSE IF /\ HasRun(tree, exp_id.v, run_id)
                /\ tag_name \in DOMAIN RunOf(tree, exp_id.v, run_id).tags
        THEN StrVal(Strip(RunOf(tree, exp_id.v, run_id).tags[tag_name]))
        ELSE None

\* `value or item`, `if value:` -- None and the empty str are falsy
Truthy(x) == x.kind = "str" /\ x.v # << >>

\* variant: a run is a regression run whenever it has an rmse
RunTypeRmseFirst(has_accuracy, has_rmse) ==
    IF has_rmse THEN "regression"
    ELSE IF has_accuracy THEN "classification"
    ELSE "unknown"

\* line 133
RunType(has_accuracy, has_rmse) ==
    IF has_accuracy THEN "classification"
    ELSE IF has_rmse THEN "regression"
    ELSE "unknown"

\* the dict run_data of lines 124-152 for the run directory run
RunData(tree, global, rd) ==
    LET tag == read_mlflow_tag(tree, global, rd.item, "mlflow.runName")
        has_accuracy == read_mlflow_metric(tree, global, rd.item, "accuracy") # None
        has_rmse     == read_mlflow_metric(tree, global, rd.item, "rmse") # None
        read == {m \in DOMAIN rd.metrics :
                    read_mlflow_metric(tree, global, rd.item, m) # None}
        kept == {p \in DOMAIN rd.params :
                    Truthy(read_mlflow_param(tree, global, rd.item, p))}
    IN  [run_id   |-> rd.item,
         run_name |-> IF Truthy(tag) THEN tag.v ELSE rd.item,
         type     |-> RunType(has_accuracy, has_rmse),
         metrics  |-> [m \in read |->
                         read_mlflow_metric(tree, global, rd.item, m).v],
         params   |-> [p \in kept |->
                         read_mlflow_param(tree, global, rd.item, p).v]]

models == << "m", "o", "d", "e", "l", "s" >>

meta_yaml == << "m", "e", "t", "a", ".", "y", "a", "m", "l" >>

get_all_runs(tree, global) ==
    LET exp_id == ExpIdNow(tree, global)
    IN  IF NoExperiment(exp_id) THEN << >>
        ELSE IF ~ (tree.exists /\ HasEntry(tree.items, exp_id.v)) THEN << >>
        ELSE LET dirs == SelectSeq(EntryOf(tree.items, exp_id.v).runs,
                             LAMBDA e : e.isdir /\ e.item \notin {models, meta_yaml})
             IN  [k \in DOMAIN dirs |-> RunData(tree, global, dirs[k])]

ModelData(rd) ==
    [name |-> rd.run_name, metrics |-> rd.metrics, params |-> rd.params]

get_all_model_comparison(tree, global) ==
    LET runs == get_all_runs(tree, global)
        clf  == SelectSeq(runs, LAMBDA r : r.type = "classification")
        reg  == SelectSeq(runs, LAMBDA r : r.type = "regression")
    IN  [classification |-> [k \in DOMAIN clf |-> ModelData(clf[k])],
         regression     |-> [k \in DOMAIN reg |-> ModelData(reg[k])]]

\* ---- what an experiment directory may hold
NoFiles == << >>

RunName(s) == [x \in {"mlflow.runName"} |-> s]

RunPool ==
    { \* a classifier named after the final model
      RunEntry(<< "a", "1" >>, TRUE, MetaOf([status |-> << "3" >>]),
               RunName(<< "X", "G", "B", "o", "o", "s", "t", "\n" >>),
               [accuracy |-> << MetricLine(80), MetricLine(90) >>],
               [max_depth |-> << "6" >>, note |-> << " " >>]),
      \* a regressor named in lower case, with rmse and r2
      RunEntry(<< "b", "2" >>, TRUE, NoMeta,
               RunName(<< "x", "g", "b", "o", "o", "s", "t", "_", "r" >>),
               [rmse |-> << MetricLine(5) >>, r2 |-> << MetricLine(1) >>],
               NoFiles),
      \* no name tag, both accuracy and rmse
      RunEntry(<< "c", "3" >>, TRUE, EmptyMeta, NoFiles,
               [accuracy |-> << MetricLine(95) >>, rmse |-> << MetricLine(3) >>],
               NoFiles),
      \* a regressor without r2
      RunEntry(<< "d", "4" >>, TRUE, BrokenMeta, RunName(<< "R", "F" >>),
               [rmse |-> << MetricLine(7) >>], NoFiles),
      \* a regressor with a negative r2, named in lower case "final"
      RunEntry(<< "e", "5" >>, TRUE, NoMeta,
               RunName(<< "f", "i", "n", "a", "l" >>),
               [rmse |-> << MetricLine(4) >>, r2 |-> << MetricLine(0 - 1) >>],
               NoFiles),
      \* metric files that do not parse: a word, a single token, an empty file
      RunEntry(<< "f", "6" >>, TRUE, NoMeta, RunName(<< "\n" >>),
               [accuracy |-> << << Number(1700), Word >> >>,
                rmse     |-> << << Number(1700) >> >>,
                r2       |-> << >>],
               NoFiles),
      \* a classifier tagged as the final one
      RunEntry(<< "g", "7" >>, TRUE, NoMeta,
               RunName(<< "F", "i", "n", "a", "l", "_", "c" >>),
               [accuracy |-> << MetricLine(85) >>, f1 |-> << MetricLine(84) >>],
               NoFiles),
      \* a regressor with a positive r2
      RunEntry(<< "i", "9" >>, TRUE, NoMeta, RunName(<< "L", "R" >>),
               [rmse |-> << MetricLine(6) >>, r2 |-> << MetricLine(1) >>],
               NoFiles),
      \* a directory the listing skips by name, and a file
      RunEntry(models, TRUE, NoMeta, NoFiles,
               [accuracy |-> << MetricLine(99) >>], NoFiles),
      RunEntry(<< "h", "8" >>, FALSE, NoMeta, NoFiles,
               [rmse |-> << MetricLine(1) >>], NoFiles) }

RunIds == {e.item : e \in RunPool} \cup {<< "z", "0" >>}

MetricNames == {"accuracy", "rmse", "r2"}

EmptyDict == << >>

DictVal(m) == [kind |-> "dict", v |-> m]

\* lines 97-106; os.path.join raises TypeError on a None component
get_run_metadata(tree, global, run_id) ==
    IF global.kind # "str"
    THEN [kind |-> "raise", value |-> "TypeError"]
    ELSE IF /\ HasRun(tree, global.v, run_id)
            /\ RunOf(tree, global.v, run_id).meta.exists
    THEN LET meta == RunOf(tree, global.v, run_id).meta
         IN  IF ~ meta.readable THEN [kind |-> "value", value |-> DictVal(EmptyDict)]
             ELSE IF meta.null THEN [kind |-> "value", value |-> None]
             ELSE [kind |-> "value", value |-> DictVal(meta.map)]
    ELSE [kind |-> "value", value |-> DictVal(EmptyDict)]

XGBoost == << "X", "G", "B", "o", "o", "s", "t" >>

xgboost == << "x", "g", "b", "o", "o", "s", "t" >>

Final == << "F", "i", "n", "a", "l" >>

\* lines 173-175
IsXgbRun(r) ==
    \/ Contains(upper(r.run_name), XGBoost)
    \/ Contains(lower(r.run_name), xgboost)
    \/ Contains(r.run_name, Final)

\* x.get("metrics", {}).get(metric, 0)
MetricOrZero(r, metric) ==
    IF metric \in DOMAIN r.metrics THEN r.metrics[metric] ELSE 0

\* max(runs, key=...): the first run whose key is the largest
MaxBy(runs, metric) ==
    runs[CHOOSE i \in DOMAIN runs :
            \A j \in DOMAIN runs :
                /\ MetricOrZero(runs[j], metric) <= MetricOrZero(runs[i], metric)
                /\ j < i => MetricOrZero(runs[j], metric) < MetricOrZero(runs[i], metric)]

\* clf_run.get("metrics", {}) if clf_run else {}
MetricsOfFirst(runs) == IF runs = << >> THEN EmptyDict ELSE runs[1].metrics

\* {r["run_name"]: r.get("metrics", {}) for r in runs}: a later run of the
\* same name replaces an earlier one
ByName(runs) ==
    [n \in {runs[k].run_name : k \in DOMAIN runs} |->
        runs[CHOOSE k \in DOMAIN runs :
                /\ runs[k].run_name = n
                /\ \A j \in DOMAIN runs : runs[j].run_name = n => j <= k].metrics]

get_model_metrics(tree, global, model_type) ==
    LET runs == get_all_runs(tree, global)
        clf_runs == SelectSeq(runs, LAMBDA r : r.type = "classification")
        reg_runs == SelectSeq(runs, LAMBDA r : r.type = "regression")
        xgb_runs == SelectSeq(runs, IsXgbRun)
    IN  IF runs = << >> THEN EmptyDict
        ELSE IF model_type = "final"
        THEN IF xgb_runs = << >>
             THEN [classifier |-> IF clf_runs = << >> THEN EmptyDict
                                  ELSE MaxBy(clf_runs, "accuracy").metrics,
                   regressor  |-> IF reg_runs = << >> THEN EmptyDict
                                  ELSE MaxBy(reg_runs, "r2").metrics]
             ELSE [classifier |-> MetricsOfFirst(SelectSeq(xgb_runs,
                                      LAMBDA r : r.type = "classification")),
                   regressor  |-> MetricsOfFirst(SelectSeq(xgb_runs,
                                      LAMBDA r : r.type = "regression"))]
        ELSE IF model_type = "classification" THEN ByName(clf_runs)
        ELSE IF model_type = "regression" THEN ByName(reg_runs)
        ELSE EmptyDict

ModelTypes == {"final", "classification", "regression", "best"}

RunTrees ==
    { NoMlruns,
      [exists |-> TRUE,
       items  |-> << Entry(<< "0" >>, TRUE, MetaOf([name |-> << "D" >>]),
                           << RunEntry(<< "a", "1" >>, TRUE, NoMeta, NoFiles,
                                       [accuracy |-> << MetricLine(50) >>],
                                       NoFiles) >>) >>] }
    \cup
    { [exists |-> TRUE,
       items  |-> << Entry(<< "1" >>, TRUE, MetaOf([name |-> EMIPredict_AI]), rs) >>] :
          rs \in Listings(RunPool, MaxEntries) }

CallGetAllRuns ==
    /\ EXPERIMENT_ID # NotImported
    /\ returned' = [fn |-> "get_all_runs", kind |-> "value",
                    value |-> get_all_runs(mlruns, EXPERIMENT_ID)]
    /\ UNCHANGED <<mlruns, EXPERIMENT_ID>>
    /\ UNCHANGED <<pipevars, uivars, other>>

CallGetAllModelComparison ==
    /\ EXPERIMENT_ID # NotImported
    /\ returned' = [fn |-> "get_all_model_comparison", kind |-> "value",
                    value |-> get_all_model_comparison(mlruns, EXPERIMENT_ID)]
    /\ UNCHANGED <<mlruns, EXPERIMENT_ID>>
    /\ UNCHANGED <<pipevars, uivars, other>>

CallGetModelMetrics ==
    /\ EXPERIMENT_ID # NotImported
    /\ \E model_type \in ModelTypes :
          returned' = [fn |-> "get_model_metrics", model_type |-> model_type,
                       kind |-> "value",
                       value |-> get_model_metrics(mlruns, EXPERIMENT_ID, model_type)]
    /\ UNCHANGED <<mlruns, EXPERIMENT_ID>>
    /\ UNCHANGED <<pipevars, uivars, other>>

CallReadMetric ==
    /\ EXPERIMENT_ID # NotImported
    /\ \E run_id \in RunIds, metric_name \in MetricNames :
          returned' = [fn |-> "read_mlflow_metric", run_id |-> run_id,
                       name |-> metric_name, kind |-> "value",
                       value |-> read_mlflow_metric(mlruns, EXPERIMENT_ID,
                                                    run_id, metric_name)]
    /\ UNCHANGED <<mlruns, EXPERIMENT_ID>>
    /\ UNCHANGED <<pipevars, uivars, other>>

CallReadParam ==
    /\ EXPERIMENT_ID # NotImported
    /\ \E run_id \in RunIds, param_name \in {"max_depth", "note"} :
          returned' = [fn |-> "read_mlflow_param", run_id |-> run_id,
                       name |-> param_name, kind |-> "value",
                       value |-> read_mlflow_param(mlruns, EXPERIMENT_ID,
                                                   run_id, param_name)]
    /\ UNCHANGED <<mlruns, EXPERIMENT_ID>>
    /\ UNCHANGED <<pipevars, uivars, other>>

CallReadTag ==
    /\ EXPERIMENT_ID # NotImported
    /\ \E run_id \in RunIds :
          returned' = [fn |-> "read_mlflow_tag", run_id |-> run_id,
                       name |-> "mlflow.runName", kind |-> "value",
                       value |-> read_mlflow_tag(mlruns, EXPERIMENT_ID,
                                                 run_id, "mlflow.runName")]
    /\ UNCHANGED <<mlruns, EXPERIMENT_ID>>
    /\ UNCHANGED <<pipevars, uivars, other>>

CallGetRunMetadata ==
    /\ EXPERIMENT_ID # NotImported
    /\ \E run_id \in RunIds :
          LET out == get_run_metadata(mlruns, EXPERIMENT_ID, run_id)
          IN  returned' = [fn |-> "get_run_metadata", run_id |-> run_id,
                           kind |-> out.kind, value |-> out.value]
    /\ UNCHANGED <<mlruns, EXPERIMENT_ID>>
    /\ UNCHANGED <<pipevars, uivars, other>>

InitRuns ==
    /\ PipelineAtRest
    /\ mlruns \in RunTrees
    /\ EXPERIMENT_ID = NotImported
    /\ returned = NoCall

NextRuns ==
    \/ ImportMlflowUtils
    \/ CallReadMetric
    \/ CallReadParam
    \/ CallReadTag
    \/ CallGetRunMetadata
    \/ CallGetAllRuns
    \/ CallGetModelMetrics
    \/ CallGetAllModelComparison

SpecRuns == InitRuns /\ [][NextRuns]_vars

\* =================================================================== claims
Schema == feature_columns_pkl.columns

\* the last call has completed and returned a table
HasReturned == pc = "idle" /\ ret.kind = "frame"

FeatureVector == ret.frame.rows[1]

FullProfile == DOMAIN data = DOMAIN Base

\* C1: the table preprocess_input returns has exactly len(FeatureSchema)
\* columns, and they are FeatureSchema's names in FeatureSchema's order,
\* whatever categorical levels the input holds.
C1_SchemaConformance ==
    HasReturned =>
        /\ Len(ret.frame.columns) = Len(Schema)
        /\ \A i \in DOMAIN Schema : ret.frame.columns[i] = Schema[i]
        /\ Len(ret.frame.rows) = 1
        /\ DOMAIN FeatureVector = Range(Schema)

C1_Witness ==
    /\ HasReturned
    /\ Schema = TrainSchema
    /\ data["emi_scenario"] = Str("Crypto EMI")
    /\ data["gender"] = Str("Female")

\* C2: the alignment step gives every FeatureSchema name the EncodedRow's
\* value when the EncodedRow has that column and 0 otherwise, drops every
\* EncodedRow column FeatureSchema does not name, and raises nothing for
\* either mismatch.
C2_SchemaAligner ==
    [][(pc = "align" /\ feature_columns_pkl.loadable) =>
          /\ ret'.kind = "frame"
          /\ \A c \in Range(Schema) :
                ret'.frame.rows[1][c] =
                    IF c \in Range(df.columns) THEN df.rows[1][c] ELSE Num(0)
          /\ \A c \in Range(df.columns) \ Range(Schema) :
                /\ c \notin Range(ret'.frame.columns)
                /\ c \notin DOMAIN ret'.frame.rows[1]]_vars

C2_Witness ==
    /\ HasReturned
    /\ "loan_to_income" \in Range(ret.frame.columns)
    /\ FeatureVector["loan_to_income"] = Num(0)
    /\ FeatureVector["affordability_index"] = Norm(80000, 300001)
    /\ "monthly_salary" \notin Range(ret.frame.columns)

\* C3: for a profile whose categorical values are all training levels, the
\* FeatureVector equals the row of the training-time transformation; a
\* non-reference level has its indicator column equal to 1.
C3_MatchesTraining ==
    (/\ HasReturned
     /\ Schema = TrainSchema
     /\ FullProfile
     /\ \A c \in Range(categorical_cols) : data[c].s \in TrainLevels[c])
    => FeatureVector = TrainingRow(data)

\* C4: after the encoding step of a one-row input each categorical field
\* has at most one indicator column equal to 1, has no indicator column at
\* all when the level present is the dropped (first observed) level, and
\* the field itself is gone from the row.
C4_CategoricalEncoder ==
    pc = "align" =>
        \A k \in DOMAIN categorical_cols :
            LET c   == categorical_cols[k]
                ind == Range(df.columns) \cap IndicatorNames(c)
            IN  /\ c \notin Range(df.columns)
                /\ c \notin DOMAIN df.rows[1]
                /\ Cardinality({n \in ind : df.rows[1][n] = Num(1)}) <= 1
                /\ (data[c] = Str(Head(Levels(DataFrame(<<data>>), c)))
                        => ind = {})

C4_Witness ==
    /\ pc = "align"
    /\ data["emi_scenario"] = Str("Education EMI")
    /\ data["education"] = Str("Graduate")
    /\ "disposable_income" \in Range(df.columns)

\* C5: a categorical value outside the field's training levels raises no
\* fault and leaves every indicator column of that field at 0.
Unseen(c) == c \in DOMAIN data /\ data[c].s \notin TrainLevels[c]

C5_UnseenCategoryZeroFill ==
    (/\ pc = "idle"
     /\ ret.kind # "none"
     /\ feature_columns_pkl.loadable
     /\ FullProfile
     /\ \E c \in Range(categorical_cols) : Unseen(c))
    => /\ ret.kind = "frame"
       /\ \A c \in Range(categorical_cols) :
             Unseen(c) =>
                \A n \in IndicatorNames(c) \cap Range(ret.frame.columns) :
                    FeatureVector[n] = Num(0)

C5_Witness ==
    /\ HasReturned
    /\ data["emi_scenario"] = Str("Crypto EMI")
    /\ "emi_scenario_Crypto EMI" \in Range(ret.frame.columns)
    /\ FeatureVector["emi_scenario_Crypto EMI"] = Num(0)

\* the integer the formula of disposable_income denotes for the argument
ExpectedTotal ==
    data["school_fees"].n + data["college_fees"].n + data["travel_expenses"].n
    + data["groceries_utilities"].n + data["other_monthly_expenses"].n

ExpectedDisposable ==
    LET v == data["monthly_salary"].n - ExpectedTotal - data["current_emi_amount"].n
    IN  IF v > 0 THEN v ELSE 0

\* C6: disposable_income = max(0, monthly_salary - total_expenses -
\* current_emi_amount): never negative, and 0 whenever expenses plus EMI
\* reach the salary; the value is the one handed on in the FeatureVector.
C6_DisposableIncome ==
    /\ pc \in {"enc", "align"} =>
          /\ df.rows[1]["disposable_income"] = Num(ExpectedDisposable)
          /\ df.rows[1]["disposable_income"].n >= 0
          /\ (ExpectedTotal + data["current_emi_amount"].n >= data["monthly_salary"].n
                => df.rows[1]["disposable_income"] = Num(0))
    /\ (HasReturned /\ "disposable_income" \in Range(ret.frame.columns)) =>
          FeatureVector["disposable_income"] = Num(ExpectedDisposable)

C6_Witness ==
    /\ HasReturned
    /\ "disposable_income" \in Range(ret.frame.columns)
    /\ FeatureVector["disposable_income"] = Num(0)
    /\ data["monthly_salary"] = Num(1)
    /\ data["other_monthly_expenses"] = Num(1)
    /\ data["current_emi_amount"] = Num(1)

NumericFields == Range(FieldOrder) \ Range(categorical_cols)

NonNegative == \A c \in NumericFields \cap DOMAIN data : data[c].n >= 0

\* v is the finite quotient num / den
IsQuotient(v, num, den) == v.d > 0 /\ v = Norm(num, den)

\* C7: with non-negative numeric fields the four salary ratios are divided
\* by monthly_salary + 1 and affordability_index by requested_amount + 1;
\* each divisor is at least 1, each quotient is finite, no fault arises.
C7_DivisionSafety ==
    /\ (pc \in {"enc", "align"} /\ NonNegative) =>
          LET r   == df.rows[1]
              s1  == data["monthly_salary"].n + 1
              q1  == data["requested_amount"].n + 1
              sav == data["bank_balance"].n + data["emergency_fund"].n
              emi == data["current_emi_amount"].n
          IN  /\ s1 >= 1 /\ q1 >= 1
              /\ IsQuotient(r["expense_ratio"], ExpectedTotal, s1)
              /\ IsQuotient(r["dti_ratio"], emi, s1)
              /\ IsQuotient(r["emi_income_interaction"], emi, s1)
              /\ IsQuotient(r["savings_buffer_ratio"], sav, s1)
              /\ IsQuotient(r["affordability_index"], sav, q1)
    /\ (pc = "idle" /\ ret.kind = "raise" /\ NonNegative) =>
          ret.exc \in {"KeyError", "FileNotFoundError"}

C7_Witness ==
    /\ pc = "enc"
    /\ data["monthly_salary"] = Num(0)
    /\ data["requested_amount"] = Num(0)
    /\ data["bank_balance"] = Num(1)

C9_SchemaMissingAborts ==
    ~feature_columns_pkl.loadable =>
        /\ ret.kind # "frame"
        /\ predicted = NoPredict
        /\ (run = "preprocess" /\ pc = "idle") => ret = Raised("FileNotFoundError")
        /\ run = "failed" => ret = Raised("FileNotFoundError")

C9_Witness ==
    /\ ~feature_columns_pkl.loadable
    /\ run = "failed"
    /\ ret = Raised("FileNotFoundError")
    /\ current_page = "EMI Eligibility Checker"
    /\ model_cache = "loaded"

\* a script run has ended on a resource that could not be loaded
LoadFailed ==
    \/ run = "stopped"
    \/ run = "failed" /\ ret = Raised("FileNotFoundError")

\* the paths of the resources that cannot be located
MissingPaths ==
    (IF clf_pkl = "missing" THEN {clf_path} ELSE {})
    \cup (IF reg_pkl = "missing" THEN {reg_path} ELSE {})
    \cup (IF feature_columns_pkl.loadable THEN {} ELSE {FEATURE_COL_PATH})

\* C10: when the schema artifact or a predictor file cannot be located or
\* loaded, the run halts before any prediction, the user sees an error
\* message (naming the path of a resource that cannot be located), and no
\* raw fault reaches the user.
C10_ArtifactMissingHandled ==
    LoadFailed =>
        /\ predicted = NoPredict
        /\ \A e \in screen : e.widget # "exception"
        /\ \E e \in screen :
              /\ e.widget = "st.error"
              /\ (\/ run = "failed"
                  \/ clf_pkl = "missing"
                  \/ reg_pkl = "missing") => e.path \in MissingPaths

\* ---------------------------------------------------------------- C11
\* the columns a one-row frame carries when it reaches the reindex
EncodedColumns == NumericFields \cup Range(DerivedOrder)

\* C11: with the artifact loadable, a call on a complete profile never ends in
\* a raise, whatever the schema holds and whatever the categorical and numeric
\* values are: it returns a frame, and every schema column the encoded row
\* does not carry is 0 in it.
C11_TotalWhenLoadable ==
    (pc = "idle" /\ ret.kind # "none" /\ feature_columns_pkl.loadable /\ FullProfile)
        => /\ ret.kind = "frame"
           /\ ret.frame.columns = Schema
           /\ \A c \in Range(Schema) \ EncodedColumns : FeatureVector[c] = Num(0)

\* a mistyped level, and a schema that names columns the row does not carry
C11_Witness ==
    /\ HasReturned
    /\ data = MistypedProfile
    /\ "loan_to_income" \in Range(Schema)

\* ---------------------------------------------------------------- C12
\* C12: the schema is read from storage once and reused: after a call has
\* returned a table, every later call returns a table with the columns of
\* that first one, whatever has happened to the stored artifact since.
C12_SchemaLoadedOnce ==
    (/\ pc = "idle"
     /\ ret.kind # "none"
     /\ FullProfile
     /\ earlier.kind = "call"
     /\ earlier.ret.kind = "frame")
    => /\ ret.kind = "frame"
       /\ ret.frame.columns = earlier.ret.frame.columns

\* ---------------------------------------------------------------- C13
\* C13: within a request the stages run in the order feature engineering,
\* encoding, alignment, predict: the position only moves forward through
\* them (or out, on a raise); no derived column changes once the encoding has
\* begun; and a predict call is made only when preprocess_input has returned,
\* with exactly the aligned table it returned.
C13_StageOrder ==
    [][ /\ (pc = "idle" /\ pc' # pc) => pc' = "fe"
        /\ (pc = "fe" /\ pc' # pc) =>
              \/ pc' = "enc" /\ ret' = ret
              \/ pc' = "idle" /\ ret'.kind = "raise"
        /\ (pc = "enc" /\ pc' # pc) =>
              \/ pc' = "align" /\ ret' = ret
              \/ pc' = "idle" /\ ret'.kind = "raise"
        /\ (pc = "align" /\ pc' # pc) => pc' = "idle" /\ ret'.kind # "none"
        /\ (pc \in {"enc", "align"} /\ df' # df) =>
              \A c \in Range(DerivedOrder) \cap Range(df'.columns) :
                  df'.rows[1][c] = df.rows[1][c]
        /\ (predicted' # predicted /\ predicted'.kind = "call") =>
              /\ pc = "idle"
              /\ ret.kind = "frame"
              /\ predicted'.X = ret.frame
              /\ predicted'.X.columns = Schema
      ]_vars

\* the regressor has been called with a table aligned to the training schema
C13_Witness ==
    /\ run = "done"
    /\ predicted.kind = "call"
    /\ predicted.model = "reg_model"
    /\ predicted.X.columns = TrainSchema
    /\ Len(TrainSchema) > 0

\* ---------------------------------------------------------------- C14
\* C14: whatever numbers the numeric fields of a complete profile hold,
\* negative monthly_salary or requested_amount included, every entry of the
\* returned table is a finite number.
C14_EveryEntryFinite ==
    (HasReturned /\ FullProfile)
        => \A c \in Range(ret.frame.columns) : IsFinite(FeatureVector[c])

\* ---------------------------------------------------------------- C15
\* C15: two requests whose steps interleave in any order each end with the
\* outcome the same call has when it runs alone from entry to exit.
C15_InterleavingIndependent ==
    /\ (pc = "idle" /\ ret.kind # "none")
          => ret = PreprocessInput(data, feature_columns_pkl)
    /\ (other.pc = "idle" /\ other.ret.kind # "none")
          => other.ret = PreprocessInput(other.data, feature_columns_pkl)

\* the second request began while the first was in flight, with another
\* profile, and both have returned
C15_Witness ==
    /\ HasReturned
    /\ other.pc = "idle"
    /\ other.ret.kind = "frame"
    /\ other.overlapped
    /\ other.data # data
    /\ Len(Schema) > 0

\* ---------------------------------------------------------------- C16
\* C16: from entry to exit, by return or by raise, a call of preprocess_input
\* leaves the mapping it was given, the stored schema artifact, and every
\* piece of state outside its own frame as they were.
C16_NoSideEffects ==
    [][ pc # "idle" =>
          /\ data' = data
          /\ feature_columns_pkl' = feature_columns_pkl
          /\ model_cache' = model_cache
          /\ current_page' = current_page
          /\ <<clf_pkl, reg_pkl>>' = <<clf_pkl, reg_pkl>>
          /\ other' = other
      ]_vars

\* a call that failed half way, its argument as it was passed
C16_Witness ==
    /\ pc = "idle"
    /\ ret = Raised("KeyError")
    /\ data = Without(Base, "house_type")

\* ---------------------------------------------------------------- C17
\* decimal rendering of a non-negative finite value by long division:
\* Scaled(v, k) is floor(v * 10^k), Rounded(v, k) is v to k decimals, half up
RECURSIVE LongDivision(_, _, _, _)
LongDivision(q, rem, d, k) ==
    IF k = 0 THEN q
    ELSE LongDivision(q * 10 + (rem * 10) \div d, (rem * 10) % d, d, k - 1)

Scaled(v, k) == LongDivision(v.n \div v.d, v.n % v.d, v.d, k)

Rounded(v, k) == (Scaled(v, k + 1) + 5) \div 10

\* the profile of the worked example: the eleven fields it fixes
Scenario ==
    /\ data["monthly_salary"] = Num(50000)
    /\ data["school_fees"] = Num(0)
    /\ data["college_fees"] = Num(0)
    /\ data["travel_expenses"] = Num(2000)
    /\ data["groceries_utilities"] = Num(5000)
    /\ data["other_monthly_expenses"] = Num(3000)
    /\ data["current_emi_amount"] = Num(0)
    /\ data["credit_score"] = Num(750)
    /\ data["bank_balance"] = Num(50000)
    /\ data["emergency_fund"] = Num(30000)
    /\ data["requested_amount"] = Num(300000)

\* the derived columns are in the frame
Engineered == pc \in {"enc", "align"}

\* C17 as stated: for the worked example total_expenses = 10000,
\* disposable_income = 40000, dti_ratio = 0, expense_ratio is 0.19996 to five
\* decimals, credit_risk_score 0.1818 and affordability_index 0.2667 to four.
C17_WorkedExampleAsStated ==
    (Engineered /\ Scenario) =>
        LET r == df.rows[1]
        IN  /\ r["total_expenses"] = Num(10000)
            /\ r["disposable_income"] = Num(40000)
            /\ r["dti_ratio"] = Num(0)
            /\ IsFinite(r["expense_ratio"])
            /\ Rounded(r["expense_ratio"], 5) = 19996
            /\ Rounded(r["credit_risk_score"], 4) = 1818
            /\ Rounded(r["affordability_index"], 4) = 2667

\* C17 amended: the same, with expense_ratio = 10000/50001, which is 0.199996
\* to six decimals (0.20000 to five).
C17_WorkedExample ==
    (Engineered /\ Scenario) =>
        LET r == df.rows[1]
        IN  /\ r["total_expenses"] = Num(10000)
            /\ r["disposable_income"] = Num(40000)
            /\ r["dti_ratio"] = Num(0)
            /\ r["expense_ratio"] = [n |-> 10000, d |-> 50001]
            /\ Rounded(r["expense_ratio"], 6) = 199996
            /\ Rounded(r["expense_ratio"], 5) = 20000
            /\ r["credit_risk_score"] = [n |-> 2, d |-> 11]
            /\ Rounded(r["credit_risk_score"], 4) = 1818
            /\ r["affordability_index"] = [n |-> 80000, d |-> 300001]
            /\ Rounded(r["affordability_index"], 4) = 2667

C17_Witness ==
    /\ pc = "align"
    /\ Scenario
    /\ df.rows[1]["expense_ratio"] = [n |-> 10000, d |-> 50001]

\* ---------------------------------------------------------------- C18
\* C18: with monthly_salary = 0 the guarded denominator is 1, so expense_ratio
\* is exactly total_expenses and dti_ratio exactly current_emi_amount, and the
\* call goes on to return them without a fault.
C18_ZeroSalary ==
    (FullProfile /\ data["monthly_salary"] = Num(0)) =>
        /\ Engineered =>
              /\ df.rows[1]["expense_ratio"] = Num(ExpectedTotal)
              /\ df.rows[1]["expense_ratio"] = df.rows[1]["total_expenses"]
              /\ df.rows[1]["dti_ratio"] = data["current_emi_amount"]
        /\ (pc = "idle" /\ ret.kind # "none" /\ feature_columns_pkl.loadable) =>
              /\ ret.kind = "frame"
              /\ "dti_ratio" \in Range(Schema) =>
                    FeatureVector["dti_ratio"] = data["current_emi_amount"]

\* zero salary with a non-zero expense and a non-zero current EMI, returned
C18_Witness ==
    /\ HasReturned
    /\ data["monthly_salary"] = Num(0)
    /\ data["other_monthly_expenses"] = Num(1)
    /\ data["current_emi_amount"] = Num(1)
    /\ "dti_ratio" \in Range(Schema)
    /\ FeatureVector["dti_ratio"] = Num(1)

\* ---------------------------------------------------------------- C19
\* C19: employment_stability_score is 1 when years_of_employment is at least
\* 5, 1/2 when it is at least 2 and below 5, and 1/5 for every other value,
\* negative ones included; 2 and 5 themselves belong to the higher band.
C19_EmploymentBands ==
    Engineered =>
        LET y == data["years_of_employment"].n
            s == df.rows[1]["employment_stability_score"]
        IN  /\ (y >= 5) => s = [n |-> 1, d |-> 1]
            /\ (2 <= y /\ y < 5) => s = [n |-> 1, d |-> 2]
            /\ (y < 2) => s = [n |-> 1, d |-> 5]

\* the lower boundary, in the middle band
C19_Witness ==
    /\ pc = "enc"
    /\ data["years_of_employment"] = Num(2)
    /\ df.rows[1]["employment_stability_score"] = [n |-> 1, d |-> 2]

\* ---------------------------------------------------------------- C20
\* the engineered row of the same profile with a monthly_rent of 15000 more
WithOtherRent ==
    FeatureEngineering(
        DataFrame(<<[data EXCEPT !["monthly_rent"] = RAdd(@, Num(15000))]>>)).rows[1]

\* C20: total_expenses is the sum of school_fees, college_fees,
\* travel_expenses, groceries_utilities and other_monthly_expenses and of
\* nothing else: monthly_rent and current_emi_amount add nothing to it, and
\* the same profile with another monthly_rent has the same derived features.
C20_TotalExpenses ==
    Engineered =>
        /\ df.rows[1]["total_expenses"] = Num(ExpectedTotal)
        /\ "monthly_rent" \in DOMAIN data =>
              LET other_rent == WithOtherRent
              IN  \A c \in Range(DerivedOrder) : other_rent[c] = df.rows[1][c]

\* one expense of 1, a rent of 1 and the total still 1
C20_Witness ==
    /\ pc = "enc"
    /\ "monthly_rent" \in DOMAIN data
    /\ data["monthly_rent"] = Num(1)
    /\ data["college_fees"] = Num(1)
    /\ df.rows[1]["total_expenses"] = Num(1)

\* ---------------------------------------------------------------- C21
\* C21: for a profile whose numeric fields are non-negative,
\* emi_income_interaction and dti_ratio are the same finite number,
\* current_emi_amount / (monthly_salary + 1), in the engineered row and in the
\* returned table when the schema names both.
C21_EmiIncomeIsDti ==
    /\ (Engineered /\ NonNegative) =>
          /\ IsQuotient(df.rows[1]["dti_ratio"],
                        data["current_emi_amount"].n, data["monthly_salary"].n + 1)
          /\ df.rows[1]["emi_income_interaction"] = df.rows[1]["dti_ratio"]
    /\ (/\ HasReturned
        /\ NonNegative
        /\ {"emi_income_interaction", "dti_ratio"} \subseteq Range(Schema)) =>
          /\ IsFinite(FeatureVector["dti_ratio"])
          /\ FeatureVector["emi_income_interaction"] = FeatureVector["dti_ratio"]

\* a current EMI of 1 on a salary of 1: both columns are 1/2 in the output
C21_Witness ==
    /\ HasReturned
    /\ data["current_emi_amount"] = Num(1)
    /\ data["monthly_salary"] = Num(1)
    /\ "emi_income_interaction" \in Range(Schema)
    /\ FeatureVector["emi_income_interaction"] = [n |-> 1, d |-> 2]
    /\ FeatureVector["dti_ratio"] = [n |-> 1, d |-> 2]

\* ---------------------------------------------------------------- C22
\* C22: for a profile whose numeric fields are non-negative,
\* credit_risk_score is (850 - credit_score) / 550, ten times
\* financial_risk_index is 4 * expense_ratio + 4 * dti_ratio +
\* 2 * credit_risk_score of the same row, and income_credit_interaction is
\* monthly_salary * (850 - credit_score) / 550.
C22_RiskIndex ==
    (Engineered /\ NonNegative) =>
        LET r  == df.rows[1]
            cs == data["credit_score"].n
        IN  /\ r["credit_risk_score"] = Norm(850 - cs, 550)
            /\ IsFinite(r["financial_risk_index"])
            /\ RMul(Num(10), r["financial_risk_index"]) =
                   RAdd(RAdd(RMul(Num(4), r["expense_ratio"]),
                             RMul(Num(4), r["dti_ratio"])),
                        RMul(Num(2), r["credit_risk_score"]))
            /\ r["income_credit_interaction"] =
                   Norm(data["monthly_salary"].n * (850 - cs), 550)

\* a row where the three terms differ: current EMI 1 on salary 1, score 750
C22_Witness ==
    /\ pc = "enc"
    /\ data["monthly_salary"] = Num(1)
    /\ data["current_emi_amount"] = Num(1)
    /\ data["other_monthly_expenses"] = Num(0)
    /\ df.rows[1]["financial_risk_index"] = Norm(13, 55)
    /\ df.rows[1]["income_credit_interaction"] = Norm(2, 11)

\* ---------------------------------------------------------------- C23
\* the two complete profiles hold the same value in every numeric field
SameNumerics(a, b) ==
    /\ DOMAIN a = DOMAIN Base
    /\ DOMAIN b = DOMAIN Base
    /\ \A c \in NumericFields : a[c] = b[c]

\* C23: the categorical fields have no influence on the output: a call
\* returns the table an earlier call returned for a profile with the same
\* numeric fields, whatever the eight categorical fields held in each, and
\* every schema column that is neither a raw numeric field nor a derived
\* feature is 0 in the returned row.
C23_CategoricalsIgnored ==
    HasReturned =>
        /\ (earlier.kind = "call" /\ SameNumerics(data, earlier.data))
              => ret = earlier.ret
        /\ FullProfile =>
              \A c \in Range(Schema) :
                  c \notin EncodedColumns => FeatureVector[c] = Num(0)

\* two returned calls that differ in gender, education and EMI scenario,
\* under a schema that has indicator columns
C23_Witness ==
    /\ HasReturned
    /\ earlier.kind = "call"
    /\ earlier.data = Base
    /\ data = [Base EXCEPT !.gender = Str("Female"), !.education = Str("Graduate"),
                           !.emi_scenario = Str("Education EMI")]
    /\ Schema = TrainSchema
    /\ ret = earlier.ret

\* ---------------------------------------------------------------- C24
\* the keys whose absence fails the call, and those that may be absent
RequiredKeys ==
    {"school_fees", "college_fees", "travel_expenses", "groceries_utilities",
     "other_monthly_expenses", "monthly_salary", "current_emi_amount",
     "bank_balance", "emergency_fund", "requested_amount", "credit_score",
     "years_of_employment",
     "gender", "marital_status", "education", "employment_type", "company_type",
     "house_type", "existing_loans", "emi_scenario"}

OptionalKeys ==
    {"age", "monthly_rent", "family_size", "dependents", "requested_tenure"}

\* C24: a mapping that lacks one of the twelve numeric fields the feature
\* engineering reads, or one of the eight categorical fields, never reaches
\* the read of the artifact and ends in KeyError, whatever state the artifact
\* is in; a mapping that lacks only age, monthly_rent, family_size, dependents
\* or requested_tenure returns a table when the artifact loads, with 0 in the
\* column of each absent key the schema names.
C24_MissingKeys ==
    /\ ~ (RequiredKeys \subseteq DOMAIN data) =>
          /\ pc # "align"
          /\ (pc = "idle" /\ ret.kind # "none") => ret = Raised("KeyError")
    /\ (/\ RequiredKeys \subseteq DOMAIN data
        /\ pc = "idle"
        /\ ret.kind # "none"
        /\ feature_columns_pkl.loadable) =>
          /\ ret.kind = "frame"
          /\ \A c \in (OptionalKeys \ DOMAIN data) \cap Range(Schema) :
                FeatureVector[c] = Num(0)

\* a missing categorical key ends in KeyError although the artifact itself
\* cannot be read
C24_Witness ==
    /\ pc = "idle"
    /\ data = Without(Base, "emi_scenario")
    /\ ret = Raised("KeyError")
    /\ ~ feature_columns_pkl.loadable

\* ---------------------------------------------------------------- C25
\* C25: a run gets past load_models only with both models loaded, and a
\* predict call exists only in such a run; when either model file is absent
\* or does not deserialize, nothing is cached, every run ends at the load
\* (no navigation, no page, no call of preprocess_input, no predict).
C25_BothModelsOrStop ==
    /\ run \in {"nav", "page", "preprocess", "done", "failed"} =>
          model_cache = "loaded" /\ clf_pkl = "ok" /\ reg_pkl = "ok"
    /\ predicted.kind = "call" =>
          model_cache = "loaded" /\ clf_pkl = "ok" /\ reg_pkl = "ok"
    /\ (clf_pkl # "ok" \/ reg_pkl # "ok") =>
          /\ model_cache = "empty"
          /\ run \in {"idle", "load", "stopped"}
          /\ current_page = "unset"
          /\ predicted = NoPredict
          /\ pc = "idle" /\ ret = NoRet
          /\ \A e \in screen : e.widget \in {"st.error", "st.info"}

\* the classifier file is fine, the regressor file is absent, the run stopped
C25_Witness ==
    /\ clf_pkl = "ok"
    /\ reg_pkl = "missing"
    /\ run = "stopped"
    /\ Element("st.error", "Model file not found", reg_path) \in screen

\* ---------------------------------------------------------------- C26
\* the page branches the current run has entered
Rendered == {e \in screen : e.widget = "page"}

\* the script run has ended, by reaching its last line, by st.stop() or by
\* an exception
RunEnded == run \in {"done", "stopped", "failed"}

\* current_page changes only by the click that triggered the run, or from
\* unset to "Home"
PageChangesByClick ==
    current_page' # current_page =>
        \/ event.kind = "click" /\ current_page' = event.item
        \/ current_page = "unset" /\ event.kind # "click" /\ current_page' = "Home"

\* C26 as stated: in every run current_page is one of the six items, "Home"
\* in the first; it is the clicked item in the run of the click and is left
\* alone by a run without one; and every run renders exactly one page branch.
C26_NavigationAsStated ==
    /\ [](RunEnded =>
            /\ current_page \in Range(nav_items)
            /\ event.kind = "click" => current_page = event.item
            /\ Cardinality(Rendered) = 1)
    /\ [][PageChangesByClick]_vars

\* C26 amended: the same for every run that gets past load_models; a run
\* stopped there sets no current_page and renders no page branch.
C26_Navigation ==
    /\ [](run \in {"page", "preprocess", "done", "failed"} =>
            /\ current_page \in Range(nav_items)
            /\ event.kind = "click" => current_page = event.item)
    /\ [](run \in {"preprocess", "done", "failed"} =>
            Rendered = {Element("page", current_page, "")})
    /\ [](run = "stopped" => Rendered = {})
    /\ []((current_page = "unset" /\ run = "nav") => event.kind = "rerun")
    /\ [][PageChangesByClick]_vars

\* a rerun without a click after a click on Data Exploration: the page stays
C26_Witness ==
    /\ run = "done"
    /\ event = NoEvent
    /\ current_page = "Data Exploration"
    /\ Rendered = {Element("page", "Data Exploration", "")}

\* ---------------------------------------------------------------- C28
\* positions in mlruns of the entries the claim calls candidates: a directory
\* with an all-digit name other than "0" whose meta.yaml is readable and has
\* a name
CandidateAt ==
    { i \in DOMAIN mlruns.items :
        LET e == mlruns.items[i]
        IN  /\ e.isdir
            /\ \A k \in DOMAIN e.item : e.item[k] \in Digit
            /\ e.item # << >>
            /\ e.item # << "0" >>
            /\ e.meta.exists /\ e.meta.readable /\ ~ e.meta.null
            /\ "name" \in DOMAIN e.meta.map }

PreferredAt ==
    { i \in CandidateAt : mlruns.items[i].meta.map["name"] = EMIPredict_AI }

First(S) == CHOOSE i \in S : \A j \in S : i <= j

\* C28: get_experiment_id returns None exactly when mlruns is absent or has
\* no candidate; never "0"; the id of the (first) candidate named
\* EMIPredict_AI when there is one, otherwise the id of the first candidate.
C28_ExperimentId ==
    returned.fn = "get_experiment_id" =>
        /\ returned.value = None <=> (~ mlruns.exists \/ CandidateAt = {})
        /\ returned.value # StrVal(<< "0" >>)
        /\ PreferredAt # {} =>
              returned.value = StrVal(mlruns.items[First(PreferredAt)].item)
        /\ (PreferredAt = {} /\ CandidateAt # {}) =>
              returned.value = StrVal(mlruns.items[First(CandidateAt)].item)

\* the preferred experiment is listed after another candidate and is still
\* the one returned
C28_Witness ==
    /\ returned.fn = "get_experiment_id"
    /\ Len(mlruns.items) = 2
    /\ mlruns.items[1].item = << "2" >>
    /\ mlruns.items[2].item = << "1" >>
    /\ returned.value = StrVal(<< "1" >>)

\* C27: get_all_runs gives a run the type "classification" when its accuracy
\* metric is readable (whether or not its rmse is), otherwise "regression"
\* when its rmse is readable, otherwise "unknown"; get_all_model_comparison
\* lists every classification run once under classification, every regression
\* run once under regression, and a run of type "unknown" under neither.
Readable(run_id, metric_name) ==
    read_mlflow_metric(mlruns, EXPERIMENT_ID, run_id, metric_name) # None

TypedRuns == get_all_runs(mlruns, EXPERIMENT_ID)

Occurrences(seq, x) == Cardinality({k \in DOMAIN seq : seq[k] = x})

RunsOfType(t, m) ==
    Cardinality({k \in DOMAIN TypedRuns :
                    TypedRuns[k].type = t /\ ModelData(TypedRuns[k]) = m})

C27_RunTypes ==
    /\ returned.fn = "get_all_runs" =>
          \A k \in DOMAIN returned.value :
              LET r == returned.value[k]
              IN  /\ r.type \in {"classification", "regression", "unknown"}
                  /\ r.type = "classification" <=> Readable(r.run_id, "accuracy")
                  /\ r.type = "regression" <=>
                        (~ Readable(r.run_id, "accuracy") /\ Readable(r.run_id, "rmse"))
    /\ returned.fn = "get_all_model_comparison" =>
          /\ DOMAIN returned.value = {"classification", "regression"}
          /\ \A k \in DOMAIN TypedRuns :
                LET m == ModelData(TypedRuns[k])
                IN  /\ Occurrences(returned.value.classification, m)
                          = RunsOfType("classification", m)
                    /\ Occurrences(returned.value.regression, m)
                          = RunsOfType("regression", m)
          /\ Len(returned.value.classification) + Len(returned.value.regression)
                = Cardinality({k \in DOMAIN TypedRuns : TypedRuns[k].type # "unknown"})

C27_Witness ==
    \/ /\ returned.fn = "get_all_runs"
       /\ \E k \in DOMAIN returned.value :
             /\ returned.value[k].type = "classification"
             /\ Readable(returned.value[k].run_id, "rmse")
       /\ \E k \in DOMAIN returned.value : returned.value[k].type = "unknown"
    \/ /\ returned.fn = "get_all_model_comparison"
       /\ \E k \in DOMAIN TypedRuns : TypedRuns[k].type = "unknown"
       /\ Len(returned.value.classification) = 1

\* C29: get_model_metrics("final") returns {} when there are no runs and
\* otherwise a mapping with exactly the keys classifier and regressor. When
\* some run name contains XGBoost in any letter case, or Final, each key holds
\* the metrics of the first such run of the matching type, or {} when no such
\* run has that type. When no run name matches, classifier holds the metrics
\* of the classification run with the highest accuracy and regressor those of
\* the regression run with the highest r2.
NameMatches(name) == Contains(lower(name), lower(XGBoost)) \/ Contains(name, Final)

MatchingRuns == {k \in DOMAIN TypedRuns : NameMatches(TypedRuns[k].run_name)}

FirstMatchOfType(t) ==
    LET T == {k \in MatchingRuns : TypedRuns[k].type = t}
    IN  IF T = {} THEN EmptyDict ELSE TypedRuns[First(T)].metrics

\* out is the metrics of a run of type t whose metric is the highest recorded
HoldsHighest(out, t, metric) ==
    LET T == {k \in DOMAIN TypedRuns : TypedRuns[k].type = t}
        R == {k \in T : metric \in DOMAIN TypedRuns[k].metrics}
    IN  IF T = {} THEN out = EmptyDict
        ELSE IF R = {} THEN \E k \in T : out = TypedRuns[k].metrics
        ELSE \E k \in R :
                /\ out = TypedRuns[k].metrics
                /\ \A j \in R : TypedRuns[j].metrics[metric] <= TypedRuns[k].metrics[metric]

C29_FinalMetrics ==
    (returned.fn = "get_model_metrics" /\ returned.model_type = "final") =>
        IF TypedRuns = << >> THEN returned.value = EmptyDict
        ELSE /\ DOMAIN returned.value = {"classifier", "regressor"}
             /\ IF MatchingRuns # {}
                THEN /\ returned.value.classifier = FirstMatchOfType("classification")
                     /\ returned.value.regressor = FirstMatchOfType("regression")
                ELSE /\ HoldsHighest(returned.value.classifier, "classification", "accuracy")
                     /\ HoldsHighest(returned.value.regressor, "regression", "r2")

\* C30: when no experiment is detected (EXPERIMENT_ID is None) the readers
\* never raise: read_mlflow_metric, read_mlflow_param and read_mlflow_tag
\* return None, get_all_runs returns an empty list and get_run_metadata an
\* empty mapping, for every run id.
ReaderNames == {"read_mlflow_metric", "read_mlflow_param", "read_mlflow_tag"}

C30_NoExperimentNeverRaises ==
    EXPERIMENT_ID = None =>
        /\ returned.fn \in ReaderNames =>
              returned.kind = "value" /\ returned.value = None
        /\ returned.fn = "get_all_runs" =>
              returned.kind = "value" /\ returned.value = << >>
        /\ returned.fn = "get_run_metadata" =>
              returned.kind = "value" /\ returned.value = DictVal(EmptyDict)

====
